---- MODULE Spec2Model ----
(***************************************************************************)
(* metaspn-gates: the decision engine (evaluator.py), the state applier    *)
(* (applier.py) and the orchestrator cycle evaluate -> apply around them.  *)
(*                                                                         *)
(* Python values that live in dynamically typed mappings (the entity       *)
(* state, the feature snapshot, requirement values) are tagged records     *)
(* [kind |-> ..., ...]; fields of the frozen dataclasses of models.py are  *)
(* plain TLA+ values, with None for an unset Optional[str].  A dotted      *)
(* field path is kept as the key sequence path.split(".") yields.          *)
(* A datetime is its instant in seconds plus whether it carries tzinfo.    *)
(***************************************************************************)
EXTENDS Integers, Sequences, FiniteSets, TLC

VARIABLES config, backend, features, entity, now, wall, budget, pc, call, decisions, applied, second,
          document, loaded, requirement, held, threads, frames, history, evaluations, proposals

vars == <<config, backend, features, entity, now, wall, budget, pc, call, decisions, applied, second,
          document, loaded, requirement, held, threads, frames, history, evaluations, proposals>>

\* The variables of the checks that stand beside the evaluate -> apply cycle.
sideVars == <<document, loaded, requirement, held, threads, frames, history, evaluations, proposals>>

\* The variables of the concurrent calls and of the learning calls.
threadVars == <<threads, frames>>
learningVars == <<history, evaluations, proposals>>

-----------------------------------------------------------------------------
(* Bounds of the model.                                                    *)

MaxGates == 2
MaxNow == 2
MaxWall == 1
MaxCycles == 2
MaxAttempts == 2
MaxOutcomes == 2
MaxSamples == 10

-----------------------------------------------------------------------------
(* Python values.                                                          *)

None == "None"
\* min_soft_passed = None of a GateConfig (the parser admits only ints >= 0).
NoQuorum == -1
PyNone == [kind |-> "none"]
PyInt(n) == [kind |-> "int", v |-> n]
PyStr(s) == [kind |-> "str", v |-> s]
PyList(s) == [kind |-> "list", v |-> s]
PyMap(f) == [kind |-> "map", v |-> f]
PyDatetime(t, aware) == [kind |-> "datetime", t |-> t, aware |-> aware]
PyIsoStr(t, aware) == [kind |-> "isostr", t |-> t, aware |-> aware]
EmptyMap == <<>>

IsStr(v) == v.kind \in {"str", "isostr"}
IsMapping(v) == v.kind = "map"

\* Mapping.get(key): the value, or None when the key is absent.
MapGet(m, key) ==
    IF key \in DOMAIN m THEN m[key] ELSE PyNone

\* mapping[key] = value on a dict, the key added when absent.
MapSet(m, key, value) ==
    [k \in (DOMAIN m) \cup {key} |-> IF k = key THEN value ELSE m[k]]

\* value == s for a str s of the rule model.
EqStr(value, s) ==
    value.kind = "str" /\ value.v = s

\* datetime.isoformat() and datetime.fromisoformat(): the text keeps the
\* instant and whether an offset was written.
isoformat(dt) ==
    PyIsoStr(dt.t, dt.aware)

fromisoformat(s) ==
    IF s.kind = "isostr"
    THEN [raised |-> "none", val |-> PyDatetime(s.t, s.aware)]
    ELSE [raised |-> "ValueError", val |-> PyNone]

Ok(b) == [raised |-> "none", val |-> b]
Raise(e) == [raised |-> e, val |-> FALSE]

-----------------------------------------------------------------------------
(* evaluator.py                                                            *)

RECURSIVE GetPathFrom(_, _, _)
GetPathFrom(current, path, i) ==
    IF i > Len(path) THEN [exists |-> TRUE, value |-> current]
    ELSE IF ~IsMapping(current) \/ path[i] \notin DOMAIN current.v
         THEN [exists |-> FALSE, value |-> PyNone]
         ELSE GetPathFrom(current.v[path[i]], path, i + 1)

_get_path(mapping, path) ==
    GetPathFrom(PyMap(mapping), path, 1)

\* Python's == on the values of the model.
PyEq(a, b) ==
    a = b

\* Whether Python orders a against b (<, <=, >, >=) without a TypeError:
\* two ints or two strs, of the kinds that occur in the inputs.
Orderable(a, b) ==
    a.kind = b.kind /\ a.kind \in {"int", "str"}

\* The strings that are compared by order, in Python's (code point) order.
OrderedStrings ==
    <<"high", "low", "ops">>

\* The position of a value in its kind's order.
OrderKey(a) ==
    IF a.kind = "int" THEN a.v
    ELSE CHOOSE i \in 1..Len(OrderedStrings) : OrderedStrings[i] = a.v

\* Whether "a in b" is defined: b is a list, a mapping with a hashable a, or
\* a str with a str a.
Container(a, b) ==
    \/ b.kind = "list"
    \/ b.kind = "map" /\ a.kind \notin {"list", "map"}
    \/ b.kind = "str" /\ a.kind = "str"

\* a in b: an equal element of a list, a key of a mapping, a substring of a
\* str (no string of the inputs is a proper substring of another).
PyIn(a, b) ==
    IF b.kind = "list" THEN \E i \in 1..Len(b.v) : PyEq(a, b.v[i])
    ELSE IF b.kind = "map" THEN a.kind = "str" /\ a.v \in DOMAIN b.v
    ELSE a.v = b.v

\* Python's <, <=, >, >= on two order keys.
Ordered(op, a, b) ==
    IF op = "gt" THEN a > b
    ELSE IF op = "gte" THEN a >= b
    ELSE IF op = "lt" THEN a < b
    ELSE a <= b

_compare(op, actual, expected) ==
    IF op = "eq" THEN Ok(PyEq(actual, expected))
    ELSE IF op = "ne" THEN Ok(~PyEq(actual, expected))
    ELSE IF op \in {"gt", "gte", "lt", "lte"}
    THEN IF ~Orderable(actual, expected) THEN Raise("TypeError")
         ELSE Ok(Ordered(op, OrderKey(actual), OrderKey(expected)))
    ELSE IF op \in {"in", "not_in"}
    THEN IF ~Container(actual, expected) THEN Raise("TypeError")
         ELSE Ok(IF op = "in" THEN PyIn(actual, expected) ELSE ~PyIn(actual, expected))
    ELSE Raise("ValueError")

\* Mutant: an absent path is compared as None instead of failing.
_requirement_passed_absent_as_none(source, field, op, value) ==
    LET got == _get_path(source, field)
    IN  IF op = "exists" THEN Ok(got.exists)
        ELSE IF op = "not_exists" THEN Ok(~got.exists)
        ELSE _compare(op, got.value, value)

_requirement_passed(source, field, op, value) ==
    LET got == _get_path(source, field)
    IN  IF op = "exists" THEN Ok(got.exists)
        ELSE IF op = "not_exists" THEN Ok(~got.exists)
        ELSE IF ~got.exists THEN Ok(FALSE)
        ELSE _compare(op, got.value, value)

\* Mutant: the wall clock is read.
EvalClockWall(t) ==
    PyDatetime(wall, t.aware)

\* The clock evaluate_gates reads: its parameter now.
EvalClock(t) ==
    t

\* Naive datetimes are taken as UTC, so the instant is t either way.
AsUtcInstant(dt) ==
    dt.t

\* Mutant: the gate is still blocked at the instant the cooldown ends.
StillCoolingInclusive(t, last_attempt, cooldown_seconds) ==
    t <= last_attempt + cooldown_seconds

\* now < (last_attempt + timedelta(seconds=gate.cooldown_seconds))
StillCooling(t, last_attempt, cooldown_seconds) ==
    t < last_attempt + cooldown_seconds

_check_cooldown(gate, entity_state, t) ==
    IF gate.cooldown_seconds <= 0 THEN Ok(FALSE)
    ELSE LET cooldowns == MapGet(entity_state, "gate_cooldowns")
         IN  IF ~IsMapping(cooldowns) THEN Ok(FALSE)
             ELSE LET raw_last == MapGet(cooldowns.v, gate.gate_id)
                  IN  IF raw_last.kind = "none" THEN Ok(FALSE)
                      ELSE IF IsStr(raw_last)
                      THEN LET parsed == fromisoformat(raw_last)
                           IN  IF parsed.raised # "none" THEN Raise(parsed.raised)
                               ELSE Ok(StillCooling(AsUtcInstant(t), AsUtcInstant(parsed.val),
                                                    gate.cooldown_seconds))
                      ELSE IF raw_last.kind = "datetime"
                      THEN Ok(StillCooling(AsUtcInstant(t), AsUtcInstant(raw_last), gate.cooldown_seconds))
                      ELSE Ok(FALSE)

\* Mutant: the track of the gate is not compared.
_matches_state_any_track(gate, entity_state) ==
    EqStr(MapGet(entity_state, "state"), gate.from_state)

_matches_state(gate, entity_state) ==
    IF ~EqStr(MapGet(entity_state, "state"), gate.from_state) THEN FALSE
    ELSE IF gate.track = None THEN TRUE
    ELSE EqStr(MapGet(entity_state, "track"), gate.track)

\* The source a predicate reads: the entity state for source "entity", the
\* features for anything else.
PredicateSource(predicate, entity_state, feats) ==
    IF predicate.source = "entity" THEN entity_state ELSE feats

\* The loop over gate.hard_requirements from index i: the index of the first
\* failing requirement (0 when none fails) and how many were evaluated.
RECURSIVE HardLoop(_, _, _, _)
\* Mutant: no break after a failing requirement; the last failing one is kept.
HardStepNoBreak(gate, entity_state, feats, i, res) ==
    IF res.raised # "none"
    THEN [raised |-> res.raised, failed |-> 0, evaluated |-> i]
    ELSE IF ~res.val
    THEN LET rest == HardLoop(gate, entity_state, feats, i + 1)
         IN  IF rest.raised # "none" \/ rest.failed # 0 THEN rest
             ELSE [raised |-> "none", failed |-> i, evaluated |-> rest.evaluated]
    ELSE HardLoop(gate, entity_state, feats, i + 1)

HardStep(gate, entity_state, feats, i, res) ==
    IF res.raised # "none"
    THEN [raised |-> res.raised, failed |-> 0, evaluated |-> i]
    ELSE IF ~res.val
    THEN [raised |-> "none", failed |-> i, evaluated |-> i]
    ELSE HardLoop(gate, entity_state, feats, i + 1)

HardLoop(gate, entity_state, feats, i) ==
    IF i > Len(gate.hard_requirements)
    THEN [raised |-> "none", failed |-> 0, evaluated |-> i - 1]
    ELSE HardStep(gate, entity_state, feats, i,
             _requirement_passed(
                 PredicateSource(gate.hard_requirements[i], entity_state, feats),
                 gate.hard_requirements[i].field, gate.hard_requirements[i].op,
                 gate.hard_requirements[i].value))

\* One threshold (res) ahead of the rest of the loop (rest).
SoftStep(res, rest) ==
    IF res.raised # "none"
    THEN [raised |-> res.raised, soft_passes |-> 0, evaluated |-> 1]
    ELSE IF rest.raised # "none"
    THEN [raised |-> rest.raised, soft_passes |-> 0, evaluated |-> rest.evaluated + 1]
    ELSE [raised |-> "none",
          soft_passes |-> rest.soft_passes + (IF res.val THEN 1 ELSE 0),
          evaluated |-> rest.evaluated + 1]

\* The loop over gate.soft_thresholds from index i: soft_passes so far in
\* passes, and how many thresholds were evaluated.
RECURSIVE SoftLoop(_, _, _, _)
SoftLoop(gate, entity_state, feats, i) ==
    IF i > Len(gate.soft_thresholds)
    THEN [raised |-> "none", soft_passes |-> 0, evaluated |-> 0]
    ELSE SoftStep(_requirement_passed(
                      PredicateSource(gate.soft_thresholds[i], entity_state, feats),
                      gate.soft_thresholds[i].field, gate.soft_thresholds[i].op,
                      gate.soft_thresholds[i].value),
                  SoftLoop(gate, entity_state, feats, i + 1))

\* Mutant: an unset min_soft_passed asks for one threshold only.
SoftNeededAny(gate) ==
    IF gate.min_soft_passed # NoQuorum THEN gate.min_soft_passed
    ELSE 1

\* needed: min_soft_passed, or every threshold when it is unset.
SoftNeeded(gate) ==
    IF gate.min_soft_passed # NoQuorum THEN gate.min_soft_passed
    ELSE Len(gate.soft_thresholds)

\* gate.failure_taxonomy.get(requirement_id, "hard_requirement_failed")
HardFailureReason(gate, requirement_id) ==
    IF requirement_id \in DOMAIN gate.failure_taxonomy
    THEN gate.failure_taxonomy[requirement_id]
    ELSE "hard_requirement_failed"

\* failure_overrides of the entity state, {} unless it is a mapping.
FailureOverrides(entity_state) ==
    LET failure_overrides == MapGet(entity_state, "failure_overrides")
    IN  IF IsMapping(failure_overrides) THEN failure_overrides.v ELSE EmptyMap

\* Mutant: the override replaces the reason of a passing decision as well.
OverrideReasonAlways(passed, reason, override_reason) ==
    IF override_reason.kind = "str" /\ override_reason.v # ""
    THEN override_reason.v ELSE reason

\* The reason after the override hook: the override replaces the reason of a
\* failing decision when it is a non-empty str.
OverrideReason(passed, reason, override_reason) ==
    IF ~passed /\ override_reason.kind = "str" /\ override_reason.v # ""
    THEN override_reason.v
    ELSE reason

\* Mutant: the snapshot holds the caller's own features and entity state
\* objects.
SnapshotOfInputs ==
    {"feature_snapshot", "entity_snapshot"}

\* The entries of a snapshot that are the caller's own objects: none, both are
\* deepcopy(dict(...)) of the inputs.
SnapshotShared ==
    {}

\* shared is not a key of the dict: it records which entries follow the
\* caller's objects when those are changed in place.
Snapshot(cfg, gate, entity_state, feats, t, cooldown_active) ==
    [feature_snapshot |-> feats,
     entity_snapshot |-> entity_state,
     config_version |-> cfg.config_version,
     gate_version |-> gate.version,
     timestamp |-> isoformat(t),
     cooldown_active |-> cooldown_active,
     shared |-> SnapshotShared]

\* passed, after the cooldown check, the hard loop and the soft stage.
Passed(gate, cd, hard, soft) ==
    /\ ~cd.val
    /\ hard.failed = 0
    /\ ~(Len(gate.soft_thresholds) > 0 /\ soft.soft_passes < SoftNeeded(gate))

FailedRequirementId(gate, hard) ==
    IF hard.failed # 0 THEN gate.hard_requirements[hard.failed].requirement_id ELSE None

\* reason, before the override hook.
ComputedReason(gate, cd, hard, passed) ==
    IF cd.val THEN "cooldown_active"
    ELSE IF hard.failed # 0 THEN HardFailureReason(gate, FailedRequirementId(gate, hard))
    ELSE IF ~passed THEN "soft_threshold_failed"
    ELSE None

TransitionAttempted(gate, passed, stamp, reason, failed_requirement_id, snapshot) ==
    [gate_id |-> gate.gate_id, from_state |-> gate.from_state, to_state |-> gate.to_state,
     passed |-> passed, timestamp |-> stamp, reason |-> reason,
     failed_requirement_id |-> failed_requirement_id, snapshot |-> snapshot]

GateDecision(gate, passed, reason, failed_requirement_id, cooldown_active, transition_attempted) ==
    [gate_id |-> gate.gate_id, gate_version |-> gate.version, track |-> gate.track,
     from_state |-> gate.from_state, to_state |-> gate.to_state, passed |-> passed,
     reason |-> reason, failed_requirement_id |-> failed_requirement_id,
     cooldown_active |-> cooldown_active, cooldown_on |-> gate.cooldown_on,
     enqueue_tasks_on_pass |-> gate.enqueue_tasks_on_pass,
     transition_attempted |-> transition_attempted]

\* The decision the iteration appends, from its verdict.
Decide(cfg, gate, entity_state, feats, stamp, cd, hard, passed, reason) ==
    GateDecision(gate, passed, reason, FailedRequirementId(gate, hard), cd.val,
        TransitionAttempted(gate, passed, stamp, reason, FailedRequirementId(gate, hard),
            Snapshot(cfg, gate, entity_state, feats, stamp, cd.val)))

\* The iteration once the cooldown check (cd), the hard loop (hard) and the soft
\* stage (soft) have run: the exception that ends the call, or the decision;
\* probe counts the hard requirements and soft thresholds it evaluated.
Verdict(cfg, gate, entity_state, feats, t, cd, hard, soft, passed) ==
    [raised |-> IF cd.raised # "none" THEN cd.raised
                ELSE IF hard.raised # "none" THEN hard.raised
                ELSE soft.raised,
     decision |-> Decide(cfg, gate, entity_state, feats, EvalClock(t), cd, hard, passed,
                     OverrideReason(passed, ComputedReason(gate, cd, hard, passed),
                         MapGet(FailureOverrides(entity_state), gate.gate_id))),
     probe |-> [hard |-> hard.evaluated, soft |-> soft.evaluated]]

\* if passed and gate.soft_thresholds: the soft stage runs only when no hard
\* requirement failed.
SoftStage(gate, entity_state, feats, cd, hard) ==
    IF ~cd.val /\ hard.raised = "none" /\ hard.failed = 0 /\ Len(gate.soft_thresholds) > 0
    THEN SoftLoop(gate, entity_state, feats, 1)
    ELSE [raised |-> "none", soft_passes |-> 0, evaluated |-> 0]

\* Mutant: a supplied override makes the decision pass.
AfterSoftOverridePasses(cfg, gate, entity_state, feats, t, cd, hard, soft) ==
    Verdict(cfg, gate, entity_state, feats, t, cd, hard, soft,
        \/ Passed(gate, cd, hard, soft)
        \/ MapGet(FailureOverrides(entity_state), gate.gate_id).kind = "str")

AfterSoft(cfg, gate, entity_state, feats, t, cd, hard, soft) ==
    Verdict(cfg, gate, entity_state, feats, t, cd, hard, soft, Passed(gate, cd, hard, soft))

AfterHard(cfg, gate, entity_state, feats, t, cd, hard) ==
    AfterSoft(cfg, gate, entity_state, feats, t, cd, hard,
        SoftStage(gate, entity_state, feats, cd, hard))

\* Mutant: the hard loop runs whether or not the cooldown is active.
HardStageAlways(gate, entity_state, feats, cd) ==
    HardLoop(gate, entity_state, feats, 1)

\* if passed: the hard loop runs only when the cooldown is not active.
HardStage(gate, entity_state, feats, cd) ==
    IF cd.val THEN [raised |-> "none", failed |-> 0, evaluated |-> 0]
    ELSE HardLoop(gate, entity_state, feats, 1)

AfterCooldown(cfg, gate, entity_state, feats, t, cd) ==
    AfterHard(cfg, gate, entity_state, feats, t, cd, HardStage(gate, entity_state, feats, cd))

\* One iteration of the loop of evaluate_gates for a matching gate.
EvaluateGate(cfg, gate, entity_state, feats, t) ==
    AfterCooldown(cfg, gate, entity_state, feats, t,
        _check_cooldown(gate, entity_state, EvalClock(t)))

\* for gate in config.gates, from index i, with the decisions appended so far.
RECURSIVE GatesLoop(_, _, _, _, _, _, _)
GateStep(cfg, entity_state, feats, t, i, acc, probes, r) ==
    IF r.raised # "none"
    THEN [raised |-> r.raised, decisions |-> <<>>, probes |-> <<>>]
    ELSE GatesLoop(cfg, entity_state, feats, t, i + 1,
                   Append(acc, r.decision), Append(probes, r.probe))

GatesLoop(cfg, entity_state, feats, t, i, acc, probes) ==
    IF i > Len(cfg.gates)
    THEN [raised |-> "none", decisions |-> acc, probes |-> probes]
    ELSE IF ~_matches_state(cfg.gates[i], entity_state)
    THEN GatesLoop(cfg, entity_state, feats, t, i + 1, acc, probes)
    ELSE GateStep(cfg, entity_state, feats, t, i, acc, probes,
             EvaluateGate(cfg, cfg.gates[i], entity_state, feats, t))

evaluate_gates(cfg, entity_state, feats, t) ==
    GatesLoop(cfg, entity_state, feats, t, 1, <<>>, <<>>)

-----------------------------------------------------------------------------
(* schemas.py                                                              *)

\* schemas_available(): whether the optional metaspn_schemas package imports.
schemas_available ==
    backend

\* build_task_and_emission(...): the task and the envelope the backend's
\* classes serialise, kept as the arguments they are built from.
build_task_and_emission(task_id, created_at, caused_by, entity_id, gate_id, emission_id, priority) ==
    [task |-> [task_id |-> task_id, task_type |-> task_id, created_at |-> created_at,
               priority |-> priority, entity_ref |-> entity_id,
               context |-> [gate_id |-> gate_id, caused_by |-> caused_by]],
     emission_envelope |-> [emission_id |-> emission_id, timestamp |-> created_at,
                            emission_type |-> "task_enqueued", caused_by |-> caused_by,
                            entity_refs |-> <<entity_id>>]]

-----------------------------------------------------------------------------
(* applier.py                                                              *)

DefaultTaskPriority == 50

MutableKeys(entity_state) ==
    {k \in DOMAIN entity_state : entity_state[k].kind \in {"list", "map"}}

\* Mutant: new_state = dict(entity_state), a new dict whose list and dict
\* values are the caller's own objects.
ShallowCopyState(entity_state) ==
    [obj |-> entity_state, shared |-> MutableKeys(entity_state)]

\* new_state = deepcopy(dict(entity_state)): a new dict that shares no
\* collection with the caller's object.
CopyState(entity_state) ==
    [obj |-> entity_state, shared |-> {}]

\* dict.setdefault(key, default)
SetDefault(m, key, default) ==
    IF key \in DOMAIN m THEN m ELSE MapSet(m, key, default)

\* Mutant: the wall clock is written.
AttemptTimestampWall(attempted) ==
    PyDatetime(wall, attempted.timestamp.aware)

\* The timestamp apply_decisions writes: the attempt's own.
AttemptTimestamp(attempted) ==
    attempted.timestamp

AttemptRecord(attempted) ==
    [gate_id |-> attempted.gate_id,
     from |-> attempted.from_state,
     to |-> attempted.to_state,
     passed |-> attempted.passed,
     reason |-> attempted.reason,
     failed_requirement_id |-> attempted.failed_requirement_id,
     timestamp |-> isoformat(AttemptTimestamp(attempted)),
     snapshot |-> attempted.snapshot]

\* Mutant: only a passing decision is recorded.
RecordsAttemptOnlyOnPass(decision) ==
    decision.passed

\* Whether the loop body appends an attempt record for the decision: always.
RecordsAttempt(decision) ==
    TRUE

AppliedRecord(decision, attempted, caused_by) ==
    [gate_id |-> decision.gate_id,
     from |-> decision.from_state,
     to |-> decision.to_state,
     caused_by |-> caused_by,
     timestamp |-> isoformat(AttemptTimestamp(attempted)),
     snapshot |-> attempted.snapshot]

BaseEmission(decision, attempted, task, new_state, caused_by) ==
    [kind |-> "task_enqueued",
     task_id |-> task,
     gate_id |-> decision.gate_id,
     gate_version |-> decision.gate_version,
     entity_id |-> MapGet(new_state, "entity_id"),
     from_state |-> decision.from_state,
     to_state |-> decision.to_state,
     caused_by |-> caused_by,
     timestamp |-> isoformat(AttemptTimestamp(attempted))]

\* base_emission["schema"] = schema_payload
WithSchema(base_emission, schema_payload) ==
    [k \in (DOMAIN base_emission) \cup {"schema"} |->
        IF k = "schema" THEN schema_payload ELSE base_emission[k]]

\* entity_id is a non-empty str.
ValidEntityId(entity_id) ==
    entity_id.kind = "str" /\ entity_id.v # ""

\* for task in decision.enqueue_tasks_on_pass, from index j.
RECURSIVE TaskLoop(_, _, _, _, _, _, _)
TaskLoop(decision, attempted, new_state, caused_by, use_schema_envelopes, j, emissions) ==
    IF j > Len(decision.enqueue_tasks_on_pass)
    THEN [raised |-> "none", emissions |-> emissions]
    ELSE LET task == decision.enqueue_tasks_on_pass[j]
             base_emission == BaseEmission(decision, attempted, task, new_state, caused_by)
             entity_id == MapGet(new_state, "entity_id")
         IN  IF use_schema_envelopes /\ schemas_available
             THEN IF ~ValidEntityId(entity_id)
                  THEN [raised |-> "ValueError", emissions |-> emissions]
                  ELSE TaskLoop(decision, attempted, new_state, caused_by, use_schema_envelopes, j + 1,
                          Append(emissions,
                            WithSchema(base_emission,
                              build_task_and_emission(task, AttemptTimestamp(attempted),
                                IF caused_by = None THEN "unknown" ELSE caused_by,
                                entity_id.v, decision.gate_id,
                                <<decision.gate_id, task, AttemptTimestamp(attempted).t>>,
                                DefaultTaskPriority))))
             ELSE TaskLoop(decision, attempted, new_state, caused_by, use_schema_envelopes, j + 1,
                     Append(emissions, base_emission))

\* Mutant: every decision updates the cooldown.
CooldownFiresAlways(decision) ==
    TRUE

\* Whether the decision's cooldown policy fires.
CooldownFires(decision) ==
    decision.cooldown_on = "attempt" \/ (decision.cooldown_on = "pass" /\ decision.passed)

\* Mutant: the new record is put in front of the earlier ones.
ListPrepend(list, item) ==
    PyList(<<item>> \o list.v)

\* list.append(item)
ListAppend(list, item) ==
    PyList(Append(list.v, item))

\* attempts.append({...})
WithAttempt(new_state, decision) ==
    IF RecordsAttempt(decision)
    THEN [new_state EXCEPT !["gate_attempts"] =
             ListAppend(@, AttemptRecord(decision.transition_attempted))]
    ELSE new_state

\* Mutant: the transition is recorded but the state is not set.
WithTransitionKeepsState(new_state, decision, caused_by) ==
    IF decision.passed
    THEN [new_state EXCEPT
             !["transitions_applied"] =
                 ListAppend(@, AppliedRecord(decision, decision.transition_attempted, caused_by))]
    ELSE new_state

\* Mutant: the state is set and the transition recorded for every decision.
WithTransitionAlways(new_state, decision, caused_by) ==
    [MapSet(new_state, "state", PyStr(decision.to_state)) EXCEPT
        !["transitions_applied"] =
            ListAppend(@, AppliedRecord(decision, decision.transition_attempted, caused_by))]

\* Mutant: a passing decision is applied only while the entity is still in the
\* decision's from_state.
WithTransitionFromStateOnly(new_state, decision, caused_by) ==
    IF decision.passed /\ MapGet(new_state, "state") = PyStr(decision.from_state)
    THEN [MapSet(new_state, "state", PyStr(decision.to_state)) EXCEPT
             !["transitions_applied"] =
                 ListAppend(@, AppliedRecord(decision, decision.transition_attempted, caused_by))]
    ELSE new_state

\* if decision.passed: new_state["state"] = decision.to_state; applied.append({...})
WithTransition(new_state, decision, caused_by) ==
    IF decision.passed
    THEN [MapSet(new_state, "state", PyStr(decision.to_state)) EXCEPT
             !["transitions_applied"] =
                 ListAppend(@, AppliedRecord(decision, decision.transition_attempted, caused_by))]
    ELSE new_state

\* Mutant: the task loop runs for every decision.
TasksOnEveryDecision(new_state, decision, caused_by, use_schema_envelopes, emissions) ==
    TaskLoop(decision, decision.transition_attempted, new_state, caused_by,
             use_schema_envelopes, 1, emissions)

\* The task loop of a passing decision; a failing one emits nothing.
Tasks(new_state, decision, caused_by, use_schema_envelopes, emissions) ==
    IF decision.passed
    THEN TaskLoop(decision, decision.transition_attempted, new_state, caused_by,
                  use_schema_envelopes, 1, emissions)
    ELSE [raised |-> "none", emissions |-> emissions]

\* Mutant: no cooldown timestamp is written.
WithCooldownSkipped(new_state, decision) ==
    new_state

\* Mutant: the mapping is replaced by one that holds the gate's timestamp only.
WithCooldownOnlyLatest(new_state, decision) ==
    IF CooldownFires(decision)
    THEN [new_state EXCEPT !["gate_cooldowns"] =
             PyMap(MapSet(EmptyMap, decision.gate_id,
                          isoformat(AttemptTimestamp(decision.transition_attempted))))]
    ELSE new_state

\* cooldowns[decision.gate_id] = decision.transition_attempted.timestamp.isoformat()
WithCooldown(new_state, decision) ==
    IF CooldownFires(decision)
    THEN [new_state EXCEPT !["gate_cooldowns"] =
             PyMap(MapSet(@.v, decision.gate_id,
                          isoformat(AttemptTimestamp(decision.transition_attempted))))]
    ELSE new_state

\* for decision in decisions, from index i, on the working copy new_state.
RECURSIVE ApplyLoop(_, _, _, _, _, _)
AfterTasks(new_state, batch, i, caused_by, use_schema_envelopes, tasks) ==
    IF tasks.raised # "none"
    THEN [raised |-> tasks.raised, new_state |-> new_state, emissions |-> tasks.emissions]
    ELSE ApplyLoop(WithCooldown(new_state, batch[i]), tasks.emissions, batch, i + 1,
                   caused_by, use_schema_envelopes)

ApplyStep(new_state, emissions, batch, i, caused_by, use_schema_envelopes) ==
    AfterTasks(new_state, batch, i, caused_by, use_schema_envelopes,
        Tasks(new_state, batch[i], caused_by, use_schema_envelopes, emissions))

ApplyLoop(new_state, emissions, batch, i, caused_by, use_schema_envelopes) ==
    IF i > Len(batch)
    THEN [raised |-> "none", new_state |-> new_state, emissions |-> emissions]
    ELSE ApplyStep(WithTransition(WithAttempt(new_state, batch[i]), batch[i], caused_by),
                   emissions, batch, i, caused_by, use_schema_envelopes)

\* The caller's object as the call leaves it: a collection the working copy
\* shares with it holds whatever the call appended.
CallerAfter(entity_state, shared, new_state) ==
    [k \in DOMAIN entity_state |-> IF k \in shared THEN new_state[k] ELSE entity_state[k]]

\* The three setdefault calls.
WithDefaults(new_state) ==
    SetDefault(SetDefault(SetDefault(new_state, "gate_attempts", PyList(<<>>)),
                          "transitions_applied", PyList(<<>>)),
               "gate_cooldowns", PyMap(EmptyMap))

\* Mutant: only gate_attempts is checked.
MalformedAttempts(new_state) ==
    new_state["gate_attempts"].kind # "list"

\* The isinstance checks that raise ValueError.
Malformed(new_state) ==
    \/ new_state["gate_attempts"].kind # "list"
    \/ new_state["transitions_applied"].kind # "list"
    \/ new_state["gate_cooldowns"].kind # "map"

ApplyChecked(new_state, batch, caused_by, use_schema_envelopes) ==
    IF Malformed(new_state)
    THEN [raised |-> "ValueError", new_state |-> new_state, emissions |-> <<>>]
    ELSE ApplyLoop(new_state, <<>>, batch, 1, caused_by, use_schema_envelopes)

\* What the call leaves: its result, and the caller's object after it.
ApplyOutcome(entity_state, shared, loop) ==
    [raised |-> loop.raised,
     new_state |-> loop.new_state,
     emissions |-> loop.emissions,
     caller_after |-> CallerAfter(entity_state, shared, loop.new_state)]

ApplyOnCopy(entity_state, copy, batch, caused_by, use_schema_envelopes) ==
    ApplyOutcome(entity_state, copy.shared,
        ApplyChecked(WithDefaults(copy.obj), batch, caused_by, use_schema_envelopes))

apply_decisions(entity_state, batch, caused_by, use_schema_envelopes) ==
    ApplyOnCopy(entity_state, CopyState(entity_state), batch, caused_by, use_schema_envelopes)

-----------------------------------------------------------------------------
(* config.py: the order parse_state_machine_config leaves the gates in.    *)

\* The strings of the sort keys, in Python's (code point) order.
StrOrder ==
    <<"", "A", "B", "OBSERVED", "PROFILED", "SEEN",
      "g.fast", "g.observe", "g.odd", "g.profile", "g.retry">>

StrRank(s) ==
    CHOOSE i \in 1..Len(StrOrder) : StrOrder[i] = s

\* key=lambda g: (g.track or "", g.from_state, g.gate_id)
GateSortKey(g) ==
    <<StrRank(IF g.track = None THEN "" ELSE g.track), StrRank(g.from_state), StrRank(g.gate_id)>>

\* Python's tuple order on two sort keys.
KeyLess(a, b) ==
    \/ a[1] < b[1]
    \/ a[1] = b[1] /\ a[2] < b[2]
    \/ a[1] = b[1] /\ a[2] = b[2] /\ a[3] < b[3]

RECURSIVE InsertGate(_, _)
InsertGate(sorted, g) ==
    IF sorted = <<>> THEN <<g>>
    ELSE IF KeyLess(GateSortKey(g), GateSortKey(Head(sorted)))
         THEN <<g>> \o sorted
         ELSE <<Head(sorted)>> \o InsertGate(Tail(sorted), g)

\* Mutant: the gates stay in the order of the document.
SortGatesKeepsOrder(gates) ==
    gates

\* gates.sort(...): a stable sort by the key.
RECURSIVE SortGates(_)
SortGates(gates) ==
    IF gates = <<>> THEN <<>>
    ELSE InsertGate(SortGates(SubSeq(gates, 1, Len(gates) - 1)), gates[Len(gates)])

\* No configuration: the call raised.
NoConfig == [config_version |-> None, gates |-> <<>>]

\* What parse_state_machine_config returns for a valid document.
ParsedConfig(config_version, raw_gates) ==
    [config_version |-> config_version, gates |-> SortGates(raw_gates)]

-----------------------------------------------------------------------------
(* The inputs of the model: gates, feature snapshots and entity states.    *)

Hard(id, field, op, value, source) ==
    [requirement_id |-> id, field |-> field, op |-> op, value |-> value, source |-> source]

Soft(id, field, op, value, source) ==
    [threshold_id |-> id, field |-> field, op |-> op, value |-> value, source |-> source]

SoftQuality == Soft("st.quality", <<"quality">>, "gte", PyInt(2), "features")
SoftReach == Soft("st.reach", <<"reach">>, "in", PyList(<<PyInt(1), PyInt(2)>>), "features")

GateObserve ==
    [gate_id |-> "g.observe", version |-> "1", track |-> None,
     from_state |-> "SEEN", to_state |-> "OBSERVED",
     hard_requirements |-> <<Hard("hr.conf", <<"profile", "confidence">>, "gte", PyInt(2), "features")>>,
     soft_thresholds |-> <<>>, min_soft_passed |-> NoQuorum,
     cooldown_seconds |-> 0, cooldown_on |-> "pass",
     enqueue_tasks_on_pass |-> <<"enrich_profile">>,
     failure_taxonomy |-> EmptyMap]

GateProfile ==
    [gate_id |-> "g.profile", version |-> "2", track |-> "A",
     from_state |-> "OBSERVED", to_state |-> "PROFILED",
     hard_requirements |-> <<Hard("hr.score", <<"score">>, "gte", PyInt(1), "features")>>,
     soft_thresholds |-> <<SoftQuality, SoftReach>>, min_soft_passed |-> 1,
     cooldown_seconds |-> 2, cooldown_on |-> "attempt",
     enqueue_tasks_on_pass |-> <<"build_profile", "notify">>,
     failure_taxonomy |-> [k \in {"hr.score"} |-> "low_score"]]

GateFast ==
    [gate_id |-> "g.fast", version |-> "1", track |-> "B",
     from_state |-> "SEEN", to_state |-> "PROFILED",
     hard_requirements |-> <<>>,
     soft_thresholds |-> <<SoftQuality, SoftReach>>, min_soft_passed |-> NoQuorum,
     cooldown_seconds |-> 2, cooldown_on |-> "pass",
     enqueue_tasks_on_pass |-> <<>>,
     failure_taxonomy |-> EmptyMap]

GateRetry ==
    [gate_id |-> "g.retry", version |-> "1", track |-> None,
     from_state |-> "SEEN", to_state |-> "SEEN",
     hard_requirements |-> <<Hard("hr.id", <<"entity_id">>, "exists", PyNone, "entity"),
                             Hard("hr.score", <<"score">>, "gte", PyInt(1), "features")>>,
     soft_thresholds |-> <<>>, min_soft_passed |-> NoQuorum,
     cooldown_seconds |-> 2, cooldown_on |-> "attempt",
     enqueue_tasks_on_pass |-> <<"recheck">>,
     failure_taxonomy |-> [k \in {"hr.score"} |-> "low_score"]]

GateOdd ==
    [gate_id |-> "g.odd", version |-> "1", track |-> None,
     from_state |-> "SEEN", to_state |-> "OBSERVED",
     hard_requirements |-> <<Hard("hr.noovr", <<"failure_overrides">>, "not_exists", PyNone, "entity")>>,
     soft_thresholds |-> <<Soft("st.bad", <<"score">>, "matches", PyInt(1), "features")>>,
     min_soft_passed |-> 0,
     cooldown_seconds |-> 0, cooldown_on |-> "pass",
     enqueue_tasks_on_pass |-> <<"audit">>,
     failure_taxonomy |-> EmptyMap]

GatePool == {GateObserve, GateProfile, GateFast, GateRetry, GateOdd}

\* The gates lists of the documents: up to MaxGates gates with distinct ids.
RawGateLists ==
    UNION {{raw \in [1..n -> GatePool] : \A i, j \in 1..n : i # j => raw[i] # raw[j]} : n \in 1..MaxGates}

Configs ==
    {ParsedConfig("sm.v1", raw) : raw \in RawGateLists}

FeatAll ==
    [profile |-> PyMap([confidence |-> PyInt(3)]), score |-> PyInt(1),
     quality |-> PyInt(2), reach |-> PyInt(1),
     token |-> PyMap([address |-> PyStr("0xabc123"), chain |-> PyStr("base"),
                      symbol |-> PyStr("TKN")])]

FeatLow ==
    [profile |-> PyMap([confidence |-> PyInt(1)]), score |-> PyInt(1),
     quality |-> PyInt(2), reach |-> PyInt(5)]

FeatFlat ==
    [profile |-> PyInt(7), score |-> PyStr("high"), quality |-> PyInt(0), reach |-> PyInt(1)]

FeaturePool == {EmptyMap, FeatAll, FeatLow, FeatFlat}

Overrides ==
    PyMap([k \in {"g.observe", "g.retry", "g.odd", "g.profile"} |->
              IF k = "g.profile" THEN PyStr("") ELSE PyStr("manual_hold")])

EntityNew ==
    [state |-> PyStr("SEEN")]

EntityTracked ==
    [entity_id |-> PyStr("ent-1"), state |-> PyStr("SEEN"), track |-> PyStr("A"),
     gate_attempts |-> PyList(<<>>), transitions_applied |-> PyList(<<>>),
     gate_cooldowns |-> PyMap([k \in {"g.retry"} |-> PyIsoStr(0, FALSE)]),
     failure_overrides |-> Overrides]

EntityObserved ==
    [entity_id |-> PyStr(""), state |-> PyStr("OBSERVED"), track |-> PyStr("A"),
     gate_attempts |-> PyList(<<>>),
     gate_cooldowns |-> PyMap([k \in {"g.profile"} |-> PyDatetime(-1, FALSE)])]

EntityCooling ==
    [state |-> PyStr("SEEN"), track |-> PyStr("B"), owner |-> PyStr("ops"),
     gate_cooldowns |-> PyMap([k \in {"g.fast", "g.retry", "g.observe"} |->
                                  IF k = "g.fast" THEN PyIsoStr(-1, TRUE)
                                  ELSE IF k = "g.observe" THEN PyIsoStr(1, TRUE)
                                  ELSE PyInt(5)])]

EntityMalformed ==
    [state |-> PyStr("SEEN"), gate_attempts |-> PyStr("oops"),
     gate_cooldowns |-> PyMap([k \in {"g.fast"} |-> PyStr("yesterday")])]

EntityBadTransitions ==
    [state |-> PyStr("SEEN"), transitions_applied |-> PyMap(EmptyMap)]

EntityBadCooldowns ==
    [state |-> PyStr("SEEN"), gate_cooldowns |-> PyList(<<>>)]

EntityPool ==
    {EntityNew, EntityTracked, EntityObserved, EntityCooling, EntityMalformed,
     EntityBadTransitions, EntityBadCooldowns}

CausedBys == {None, "sig-1"}

-----------------------------------------------------------------------------
(* config.py: parse_state_machine_config on a document (a payload mapping). *)

\* A str holding a dotted field path: v tells only whether it is empty.
PyPathStr(path) ==
    [kind |-> "str", v |-> IF path = <<>> THEN "" ELSE "path", path |-> path]

\* value = mapping.get(key); ConfigError unless it is a non-empty str.
_require_str(mapping, key) ==
    IF MapGet(mapping, key).kind # "str" \/ MapGet(mapping, key).v = ""
    THEN [raised |-> "ConfigError", val |-> PyNone]
    ELSE [raised |-> "none", val |-> MapGet(mapping, key)]

\* source=item.get("source", "features")
SourceOf(item) ==
    IF "source" \in DOMAIN item THEN item["source"].v ELSE "features"

\* An entry of hard_requirements the loop raises on.
HardItemError(item) ==
    \/ item.kind # "map"
    \/ _require_str(item.v, "requirement_id").raised # "none"
    \/ _require_str(item.v, "field").raised # "none"
    \/ _require_str(item.v, "op").raised # "none"

_parse_hard_requirements(raw) ==
    IF raw.kind = "none" THEN [raised |-> "none", val |-> <<>>]
    ELSE IF raw.kind # "list" \/ \E i \in 1..Len(raw.v) : HardItemError(raw.v[i])
    THEN [raised |-> "ConfigError", val |-> <<>>]
    ELSE [raised |-> "none",
          val |-> [i \in 1..Len(raw.v) |->
                     Hard(raw.v[i].v["requirement_id"].v, raw.v[i].v["field"].path,
                          raw.v[i].v["op"].v, MapGet(raw.v[i].v, "value"), SourceOf(raw.v[i].v))]]

\* An entry of soft_thresholds the loop raises on.
SoftItemError(item) ==
    \/ item.kind # "map"
    \/ "value" \notin DOMAIN item.v
    \/ _require_str(item.v, "threshold_id").raised # "none"
    \/ _require_str(item.v, "field").raised # "none"
    \/ _require_str(item.v, "op").raised # "none"

_parse_soft_thresholds(raw) ==
    IF raw.kind = "none" THEN [raised |-> "none", val |-> <<>>]
    ELSE IF raw.kind # "list" \/ \E i \in 1..Len(raw.v) : SoftItemError(raw.v[i])
    THEN [raised |-> "ConfigError", val |-> <<>>]
    ELSE [raised |-> "none",
          val |-> [i \in 1..Len(raw.v) |->
                     Soft(raw.v[i].v["threshold_id"].v, raw.v[i].v["field"].path,
                          raw.v[i].v["op"].v, raw.v[i].v["value"], SourceOf(raw.v[i].v))]]

\* gate.get(key, default)
GetOr(gate, key, default) ==
    IF key \in DOMAIN gate THEN gate[key] ELSE default

\* gate.get(key) or default: None and an empty collection give the default.
GetOrFalsy(gate, key, default) ==
    IF \/ MapGet(gate, key).kind = "none"
       \/ MapGet(gate, key).kind = "list" /\ Len(MapGet(gate, key).v) = 0
       \/ MapGet(gate, key).kind = "map" /\ DOMAIN MapGet(gate, key).v = {}
    THEN default ELSE gate[key]

TasksError(raw_tasks) ==
    \/ raw_tasks.kind # "list"
    \/ \E i \in 1..Len(raw_tasks.v) : raw_tasks.v[i].kind # "str" \/ raw_tasks.v[i].v = ""

CooldownSecondsError(cooldown_seconds) ==
    cooldown_seconds.kind # "int" \/ cooldown_seconds.v < 0

CooldownOnError(cooldown_on) ==
    cooldown_on.kind # "str" \/ cooldown_on.v \notin {"pass", "attempt"}

MinSoftError(min_soft_passed) ==
    min_soft_passed.kind # "none" /\ (min_soft_passed.kind # "int" \/ min_soft_passed.v < 0)

\* The checks of one gate entry up to the GateConfig(...) call, in code order.
GateFieldsError(gate, gate_ids) ==
    \/ _require_str(gate, "gate_id").raised # "none"
    \/ gate["gate_id"].v \in gate_ids
    \/ TasksError(GetOrFalsy(gate, "enqueue_tasks_on_pass", PyList(<<>>)))
    \/ GetOrFalsy(gate, "failure_taxonomy", PyMap(EmptyMap)).kind # "map"
    \/ CooldownSecondsError(GetOr(gate, "cooldown_seconds", PyInt(0)))
    \/ CooldownOnError(GetOr(gate, "cooldown_on", PyStr("pass")))
    \/ MinSoftError(MapGet(gate, "min_soft_passed"))
    \/ _require_str(gate, "version").raised # "none"
    \/ _require_str(gate, "from").raised # "none"
    \/ _require_str(gate, "to").raised # "none"
    \/ _parse_hard_requirements(MapGet(gate, "hard_requirements")).raised # "none"
    \/ _parse_soft_thresholds(MapGet(gate, "soft_thresholds")).raised # "none"

\* failure_taxonomy={str(k): str(v) for k, v in raw_taxonomy.items()}
TaxonomyOf(raw_taxonomy) ==
    [k \in DOMAIN raw_taxonomy.v |-> raw_taxonomy.v[k].v]

\* parsed = GateConfig(...)
GateConfigOf(gate) ==
    [gate_id |-> gate["gate_id"].v,
     version |-> gate["version"].v,
     track |-> IF MapGet(gate, "track").kind = "none" THEN None ELSE gate["track"].v,
     from_state |-> gate["from"].v,
     to_state |-> gate["to"].v,
     hard_requirements |-> _parse_hard_requirements(MapGet(gate, "hard_requirements")).val,
     soft_thresholds |-> _parse_soft_thresholds(MapGet(gate, "soft_thresholds")).val,
     min_soft_passed |-> IF MapGet(gate, "min_soft_passed").kind = "none" THEN NoQuorum
                         ELSE gate["min_soft_passed"].v,
     cooldown_seconds |-> GetOr(gate, "cooldown_seconds", PyInt(0)).v,
     cooldown_on |-> GetOr(gate, "cooldown_on", PyStr("pass")).v,
     enqueue_tasks_on_pass |->
         [i \in 1..Len(GetOrFalsy(gate, "enqueue_tasks_on_pass", PyList(<<>>)).v) |->
             gate["enqueue_tasks_on_pass"].v[i].v],
     failure_taxonomy |-> TaxonomyOf(GetOrFalsy(gate, "failure_taxonomy", PyMap(EmptyMap)))]

\* if parsed.min_soft_passed is not None and parsed.min_soft_passed > len(parsed.soft_thresholds)
QuorumTooLarge(parsed_gate) ==
    /\ parsed_gate.min_soft_passed # NoQuorum
    /\ parsed_gate.min_soft_passed > Len(parsed_gate.soft_thresholds)

\* Mutant: min_soft_passed is not compared with the number of thresholds.
GateErrorNoQuorumCheck(gate, gate_ids) ==
    gate.kind # "map" \/ GateFieldsError(gate.v, gate_ids)

\* Whether the loop body raises ConfigError on a gate entry.
GateError(gate, gate_ids) ==
    \/ gate.kind # "map"
    \/ GateFieldsError(gate.v, gate_ids)
    \/ QuorumTooLarge(GateConfigOf(gate.v))

\* for gate in raw_gates, from index i, with the gates and ids collected so far.
RECURSIVE ParseGates(_, _, _, _)
ParseGates(raw_gates, i, gates, gate_ids) ==
    IF i > Len(raw_gates) THEN [raised |-> "none", gates |-> gates]
    ELSE IF GateError(raw_gates[i], gate_ids) THEN [raised |-> "ConfigError", gates |-> <<>>]
    ELSE ParseGates(raw_gates, i + 1, Append(gates, GateConfigOf(raw_gates[i].v)),
                    gate_ids \cup {raw_gates[i].v["gate_id"].v})

\* The result of the gates loop turned into the call's result.
ParseOutcome(config_version, loop) ==
    IF loop.raised # "none"
    THEN [raised |-> loop.raised, config |-> NoConfig]
    ELSE [raised |-> "none", config |-> ParsedConfig(config_version, loop.gates)]

\* accepted: whether the validation of metaspn_schemas, when that package is
\* importable, lets the payload through.
parse_state_machine_config(payload, accepted) ==
    IF backend /\ ~accepted THEN [raised |-> "ConfigError", config |-> NoConfig]
    ELSE IF _require_str(payload, "config_version").raised # "none"
    THEN [raised |-> "ConfigError", config |-> NoConfig]
    ELSE IF MapGet(payload, "gates").kind # "list" \/ MapGet(payload, "gates").v = <<>>
    THEN [raised |-> "ConfigError", config |-> NoConfig]
    ELSE ParseOutcome(payload["config_version"].v,
                      ParseGates(payload["gates"].v, 1, <<>>, {}))

-----------------------------------------------------------------------------
(* The orchestrator: one evaluate -> apply cycle after another.            *)

NoCall == [kind |-> "none"]

\* Single calls on every input of the pools: one cycle per behaviour.
Init ==
    /\ config \in Configs
    /\ backend \in BOOLEAN
    /\ features \in FeaturePool
    /\ entity \in EntityPool
    /\ now = PyDatetime(0, TRUE)
    /\ wall = 0
    /\ budget = 1
    /\ pc = "idle"
    /\ call = NoCall
    /\ decisions = NoCall
    /\ applied = NoCall
    /\ second = NoCall
    /\ document = NoCall
    /\ loaded = NoCall
    /\ requirement = NoCall
    /\ held = NoCall
    /\ threads = NoCall
    /\ frames = NoCall
    /\ history = NoCall
    /\ evaluations = NoCall
    /\ proposals = NoCall

EvaluateResult(res) ==
    [kind |-> "result", raised |-> res.raised, decisions |-> res.decisions, probes |-> res.probes]

ApplyResult(entity_state, batch, caused_by, use_schema_envelopes, res) ==
    [kind |-> "apply", entity_state |-> entity_state, batch |-> batch,
     caused_by |-> caused_by, use_schema_envelopes |-> use_schema_envelopes,
     raised |-> res.raised, new_state |-> res.new_state,
     emissions |-> res.emissions, caller_after |-> res.caller_after]

\* decisions = evaluate_gates(config, entity_state, features, now)
Evaluate ==
    /\ pc = "idle"
    /\ budget > 0
    /\ budget' = budget - 1
    /\ call' = [kind |-> "evaluate", entity_state |-> entity, features |-> features, now |-> now]
    /\ decisions' = EvaluateResult(evaluate_gates(config, entity, features, now))
    /\ pc' = IF decisions'.raised = "none" THEN "evaluated" ELSE "idle"
    /\ applied' = NoCall
    /\ second' = NoCall
    /\ UNCHANGED sideVars
    /\ UNCHANGED <<config, backend, features, entity, now, wall>>

\* The batches the orchestrator may hand to apply_decisions: everything the
\* evaluation returned, or one of its decisions alone.
Batches ==
    {decisions.decisions} \cup {<<decisions.decisions[i]>> : i \in 1..Len(decisions.decisions)}

\* new_state, emissions = apply_decisions(entity_state, batch, caused_by, use_schema_envelopes);
\* the orchestrator keeps the returned state, or its own object when the call raised.
Apply ==
    /\ pc = "evaluated"
    /\ \E batch \in Batches, caused_by \in CausedBys, use_schema_envelopes \in BOOLEAN :
          /\ applied' = ApplyResult(entity, batch, caused_by, use_schema_envelopes,
                            apply_decisions(entity, batch, caused_by, use_schema_envelopes))
          /\ entity' = IF applied'.raised = "none" THEN applied'.new_state ELSE applied'.caller_after
    /\ pc' = "idle"
    /\ second' = NoCall
    /\ UNCHANGED sideVars
    /\ UNCHANGED <<config, backend, features, now, wall, budget, call, decisions>>

\* A second evaluate_gates call with the inputs of the first, before its
\* decisions are applied.
ReEvaluate ==
    /\ pc = "evaluated"
    /\ second = NoCall
    /\ second' = [EvaluateResult(evaluate_gates(config, call.entity_state, call.features, call.now))
                     EXCEPT !.kind = "evaluate"]
    /\ UNCHANGED sideVars
    /\ UNCHANGED <<config, backend, features, entity, now, wall, budget, pc, call, decisions, applied>>

\* A second apply_decisions call on another copy of the state the first one got.
ReApply ==
    /\ applied # NoCall
    /\ second = NoCall
    /\ second' = ApplyResult(applied.entity_state, applied.batch, applied.caused_by,
                             applied.use_schema_envelopes,
                             apply_decisions(applied.entity_state, applied.batch, applied.caused_by,
                                             applied.use_schema_envelopes))
    /\ UNCHANGED sideVars
    /\ UNCHANGED <<config, backend, features, entity, now, wall, budget, pc, call, decisions, applied>>

\* Time passes between cycles: the next one runs with a later now, and the
\* orchestrator has dropped the results of the last one.
Tick ==
    /\ pc = "idle"
    /\ budget > 0
    /\ now.t < MaxNow
    /\ now' = PyDatetime(now.t + 1, now.aware)
    /\ wall' = 0
    /\ call' = NoCall
    /\ decisions' = NoCall
    /\ applied' = NoCall
    /\ second' = NoCall
    /\ UNCHANGED sideVars
    /\ UNCHANGED <<config, backend, features, entity, budget, pc>>

\* wall: the wall-clock seconds gone by since the cycle's first call.
WallTick ==
    /\ call # NoCall
    /\ second = NoCall
    /\ wall < MaxWall
    /\ wall' = wall + 1
    /\ UNCHANGED sideVars
    /\ UNCHANGED <<config, backend, features, entity, now, budget, pc, call, decisions, applied, second>>

\* The caller changes, in place, the entity state and the features it gave to
\* evaluate_gates, before it applies the decisions.
MutateLive ==
    /\ pc = "evaluated"
    /\ "touched" \notin DOMAIN features
    /\ features' = MapSet(features, "touched", PyInt(1))
    /\ entity' = MapSet(entity, "touched", PyInt(1))
    /\ UNCHANGED sideVars
    /\ UNCHANGED <<config, backend, now, wall, budget, pc, call, decisions, applied, second>>

Next ==
    \/ Evaluate
    \/ Apply
    \/ ReEvaluate
    \/ ReApply
    \/ Tick
    \/ WallTick
    \/ MutateLive

Spec == Init /\ [][Next]_vars

\* Repeated cycles on one pipeline.
CycleConfigs ==
    {ParsedConfig("sm.v1", <<GateProfile, GateObserve>>),
     ParsedConfig("sm.v1", <<GateRetry, GateObserve>>)}

InitCycle ==
    /\ config \in CycleConfigs
    /\ backend = FALSE
    /\ features \in {FeatAll, FeatLow}
    /\ entity \in {EntityNew, EntityTracked}
    /\ now = PyDatetime(0, TRUE)
    /\ wall = 0
    /\ budget = MaxCycles
    /\ pc = "idle"
    /\ call = NoCall
    /\ decisions = NoCall
    /\ applied = NoCall
    /\ second = NoCall
    /\ document = NoCall
    /\ loaded = NoCall
    /\ requirement = NoCall
    /\ held = NoCall
    /\ threads = NoCall
    /\ frames = NoCall
    /\ history = NoCall
    /\ evaluations = NoCall
    /\ proposals = NoCall

SpecCycle == InitCycle /\ [][Next]_vars

\* Repeated cycles on an entity that stays in the from_state of a gate with a
\* cooldown on every attempt.  EntityRetried is the state an earlier cycle
\* left: g.retry was attempted at time 0 and failed on a requirement.
RetryConfigs ==
    {ParsedConfig("sm.v1", <<GateRetry>>), ParsedConfig("sm.v1", <<GateRetry, GateObserve>>)}

EntityRetried ==
    apply_decisions(EntityNew,
        evaluate_gates(ParsedConfig("sm.v1", <<GateRetry>>), EntityNew, EmptyMap,
                       PyDatetime(0, TRUE)).decisions,
        None, FALSE).new_state

InitCooldown ==
    /\ config \in RetryConfigs
    /\ backend = FALSE
    /\ features \in {FeatAll, EmptyMap}
    /\ entity \in {EntityNew, EntityRetried}
    /\ now = PyDatetime(0, TRUE)
    /\ wall = 0
    /\ budget = MaxCycles
    /\ pc = "idle"
    /\ call = NoCall
    /\ decisions = NoCall
    /\ applied = NoCall
    /\ second = NoCall
    /\ document = NoCall
    /\ loaded = NoCall
    /\ requirement = NoCall
    /\ held = NoCall
    /\ threads = NoCall
    /\ frames = NoCall
    /\ history = NoCall
    /\ evaluations = NoCall
    /\ proposals = NoCall

SpecCooldown == InitCooldown /\ [][Next]_vars

-----------------------------------------------------------------------------
(* The documents parse_state_machine_config is called on.                  *)

HardDocument(r) ==
    PyMap([requirement_id |-> PyStr(r.requirement_id), field |-> PyPathStr(r.field),
           op |-> PyStr(r.op), value |-> r.value, source |-> PyStr(r.source)])

SoftDocument(t) ==
    PyMap([threshold_id |-> PyStr(t.threshold_id), field |-> PyPathStr(t.field),
           op |-> PyStr(t.op), value |-> t.value, source |-> PyStr(t.source)])

\* The document entry of a gate of the pool.
GateDocument(g) ==
    PyMap([gate_id |-> PyStr(g.gate_id),
           version |-> PyStr(g.version),
           track |-> IF g.track = None THEN PyNone ELSE PyStr(g.track),
           from |-> PyStr(g.from_state),
           to |-> PyStr(g.to_state),
           hard_requirements |->
               PyList([i \in 1..Len(g.hard_requirements) |-> HardDocument(g.hard_requirements[i])]),
           soft_thresholds |->
               PyList([i \in 1..Len(g.soft_thresholds) |-> SoftDocument(g.soft_thresholds[i])]),
           min_soft_passed |-> IF g.min_soft_passed = NoQuorum THEN PyNone
                               ELSE PyInt(g.min_soft_passed),
           cooldown_seconds |-> PyInt(g.cooldown_seconds),
           cooldown_on |-> PyStr(g.cooldown_on),
           enqueue_tasks_on_pass |->
               PyList([i \in 1..Len(g.enqueue_tasks_on_pass) |-> PyStr(g.enqueue_tasks_on_pass[i])]),
           failure_taxonomy |->
               PyMap([k \in DOMAIN g.failure_taxonomy |-> PyStr(g.failure_taxonomy[k])])])

Without(m, key) ==
    [k \in (DOMAIN m) \ {key} |-> m[k]]

RequiredGateKeys == {"gate_id", "version", "from", "to"}

\* A gate entry as it is, with a key left out or emptied, or with a value the
\* parser has to refuse.
GateEntryVariants(entry) ==
    {entry}
        \cup {PyMap(Without(entry.v, k)) :
                 k \in RequiredGateKeys \cup {"track", "cooldown_seconds", "soft_thresholds"}}
        \cup {PyMap(MapSet(entry.v, k, PyStr(""))) : k \in RequiredGateKeys}
        \cup {PyMap(MapSet(entry.v, "cooldown_seconds", PyInt(-1))),
              PyMap(MapSet(entry.v, "min_soft_passed", PyInt(3))),
              PyMap(MapSet(entry.v, "min_soft_passed", PyInt(Len(entry.v["soft_thresholds"].v))))}

\* The gates lists: those of the pool with one entry varied, and those with an
\* entry repeated under the same gate_id.
GateEntryLists ==
    UNION {UNION {{[raw EXCEPT ![i] = variant] : variant \in GateEntryVariants(raw[i])} :
                  i \in 1..Len(raw)} :
           raw \in {[i \in 1..Len(gates) |-> GateDocument(gates[i])] : gates \in RawGateLists}}
        \cup {<<GateDocument(g), GateDocument(h), GateDocument(g)>> : g, h \in {GateObserve, GateFast}}

PayloadOf(config_version, gates) ==
    [config_version |-> config_version, gates |-> gates]

Documents ==
    {PayloadOf(PyStr("sm.v1"), PyList(entries)) : entries \in GateEntryLists}
        \cup {PayloadOf(config_version, gates) :
                 config_version \in {PyStr(""), PyNone, PyStr("sm.v1")},
                 gates \in {PyList(<<>>), PyMap(EmptyMap), PyNone, PyList(<<GateDocument(GateRetry)>>)}}
        \cup {Without(PayloadOf(PyStr("sm.v1"), PyList(<<GateDocument(GateRetry)>>)), k) :
                 k \in {"config_version", "gates"}}

\* config = parse_state_machine_config(document)
Parse ==
    /\ document # NoCall
    /\ loaded = NoCall
    /\ \E accepted \in BOOLEAN :
          loaded' = [kind |-> "parse"] @@ parse_state_machine_config(document, accepted)
    /\ config' = IF loaded'.raised = "none" THEN loaded'.config ELSE config
    /\ UNCHANGED <<backend, features, entity, now, wall, budget, pc, call, decisions, applied,
                   second, document>>
    /\ UNCHANGED <<requirement, held, threadVars, learningVars>>

\* The gates list of a document in another order.
Permuted(payload, order) ==
    [payload EXCEPT !["gates"] =
        PyList([i \in 1..Len(payload["gates"].v) |-> payload["gates"].v[order[i]]])]

Orders(n) ==
    {order \in [1..n -> 1..n] : \A i, j \in 1..n : order[i] = order[j] => i = j}

\* parse_state_machine_config(permuted), on the same gates in another order.
ParsePermuted ==
    /\ loaded # NoCall
    /\ second = NoCall
    /\ "gates" \in DOMAIN document
    /\ document["gates"].kind = "list"
    /\ \E order \in Orders(Len(document["gates"].v)), accepted \in BOOLEAN :
          second' = [kind |-> "parse", document |-> Permuted(document, order)] @@
                        parse_state_machine_config(Permuted(document, order), accepted)
    /\ UNCHANGED <<config, backend, features, entity, now, wall, budget, pc, call, decisions,
                   applied, document, loaded, requirement, held, threadVars, learningVars>>

NextParse ==
    \/ Parse
    \/ ParsePermuted

InitParse ==
    /\ document \in Documents
    /\ backend \in BOOLEAN
    /\ loaded = NoCall
    /\ requirement = NoCall
    /\ held = NoCall
    /\ threads = NoCall
    /\ frames = NoCall
    /\ history = NoCall
    /\ evaluations = NoCall
    /\ proposals = NoCall
    /\ config = NoConfig
    /\ features = EmptyMap
    /\ entity = EntityNew
    /\ now = PyDatetime(0, TRUE)
    /\ wall = 0
    /\ budget = 0
    /\ pc = "idle"
    /\ call = NoCall
    /\ decisions = NoCall
    /\ applied = NoCall
    /\ second = NoCall

SpecParse == InitParse /\ [][NextParse]_vars

-----------------------------------------------------------------------------
(* _requirement_passed on one predicate, as evaluate_gates calls it.       *)

PredicateFields ==
    {<<"score">>, <<"profile">>, <<"profile", "confidence">>, <<"score", "deep">>, <<"owner">>}

PredicateOps ==
    {"eq", "ne", "gt", "gte", "lt", "lte", "in", "not_in", "exists", "not_exists", "matches"}

PredicateValues ==
    {PyNone, PyInt(1), PyInt(3), PyStr("high"), PyStr("low"), PyList(<<PyInt(1), PyInt(2)>>)}

Predicates ==
    {Hard("p", field, op, value, source) :
        field \in PredicateFields, op \in PredicateOps, value \in PredicateValues,
        source \in {"features", "entity"}}

EntityScored ==
    [state |-> PyStr("SEEN"), score |-> PyInt(3), profile |-> PyMap([confidence |-> PyNone])]

InitPredicate ==
    /\ requirement \in Predicates
    /\ features \in FeaturePool
    /\ entity \in {EntityCooling, EntityScored}
    /\ held = NoCall
    /\ threads = NoCall
    /\ frames = NoCall
    /\ history = NoCall
    /\ evaluations = NoCall
    /\ proposals = NoCall
    /\ config = NoConfig
    /\ backend = FALSE
    /\ now = PyDatetime(0, TRUE)
    /\ wall = 0
    /\ budget = 0
    /\ pc = "idle"
    /\ call = NoCall
    /\ decisions = NoCall
    /\ applied = NoCall
    /\ second = NoCall
    /\ document = NoCall
    /\ loaded = NoCall

\* source = entity_source if requirement.source == "entity" else feature_source
\* _requirement_passed(source, requirement.field, requirement.op, requirement.value)
CheckRequirement ==
    /\ requirement # NoCall
    /\ held = NoCall
    /\ held' = [kind |-> "predicate"] @@
                   _requirement_passed(PredicateSource(requirement, entity, features),
                                       requirement.field, requirement.op, requirement.value)
    /\ UNCHANGED <<config, backend, features, entity, now, wall, budget, pc, call, decisions,
                   applied, second, document, loaded, requirement, threadVars, learningVars>>

NextPredicate ==
    CheckRequirement

SpecPredicate == InitPredicate /\ [][NextPredicate]_vars

-----------------------------------------------------------------------------
(* evaluate_gates and apply_decisions called from several threads, each    *)
(* for its own entity, one loop iteration at a time.                       *)

ThreadIds == {1, 2}

\* Mutant: the locals of the calls live in one module-level slot.
FrameShared(t) ==
    1

\* Where the locals of thread t's running call live: in the call's own frame.
FrameOf(t) ==
    t

NoResult == [raised |-> "pending"]

IdleFrame ==
    [i |-> 1, decisions |-> <<>>, batch |-> <<>>, new_state |-> WithDefaults(EmptyMap),
     emissions |-> <<>>]

IdleThread(entity_state, caused_by) ==
    [pc |-> "start", given |-> entity_state, entity_state |-> entity_state,
     caused_by |-> caused_by, shared |-> {}, decisions |-> NoResult, applied |-> NoResult]

InitThreads ==
    /\ config \in CycleConfigs
    /\ backend \in BOOLEAN
    /\ features \in {FeatAll, FeatLow}
    /\ \E first, other \in {EntityNew, EntityTracked, EntityObserved} :
          threads = [t \in ThreadIds |-> IF t = 1 THEN IdleThread(first, None)
                                         ELSE IdleThread(other, "sig-1")]
    /\ frames = [slot \in ThreadIds |-> IdleFrame]
    /\ entity = EntityNew
    /\ now = PyDatetime(0, TRUE)
    /\ wall = 0
    /\ budget = 0
    /\ pc = "idle"
    /\ call = NoCall
    /\ decisions = NoCall
    /\ applied = NoCall
    /\ second = NoCall
    /\ document = NoCall
    /\ loaded = NoCall
    /\ requirement = NoCall
    /\ held = NoCall
    /\ history = NoCall
    /\ evaluations = NoCall
    /\ proposals = NoCall

ThreadUnchanged ==
    UNCHANGED <<config, backend, features, entity, now, wall, budget, pc, call, decisions,
                applied, second, document, loaded, requirement, held, learningVars>>

\* decisions: list[GateDecision] = []
CallEvaluate ==
    /\ \E t \in ThreadIds :
          /\ threads[t].pc = "start"
          /\ threads' = [threads EXCEPT ![t].pc = "evaluating"]
          /\ frames' = [frames EXCEPT ![FrameOf(t)].i = 1, ![FrameOf(t)].decisions = <<>>]
    /\ ThreadUnchanged

\* One iteration of "for gate in config.gates".
GateIterationOf(t, frame, r) ==
    IF ~_matches_state(config.gates[frame.i], threads[t].entity_state)
    THEN /\ frames' = [frames EXCEPT ![FrameOf(t)].i = frame.i + 1]
         /\ UNCHANGED threads
    ELSE IF r.raised # "none"
    THEN /\ threads' = [threads EXCEPT ![t].pc = "done",
                                       ![t].decisions = [raised |-> r.raised, decisions |-> <<>>]]
         /\ UNCHANGED frames
    ELSE /\ frames' = [frames EXCEPT ![FrameOf(t)].i = frame.i + 1,
                                     ![FrameOf(t)].decisions = Append(frame.decisions, r.decision)]
         /\ UNCHANGED threads

GateIteration ==
    /\ \E t \in ThreadIds :
          /\ threads[t].pc = "evaluating"
          /\ frames[FrameOf(t)].i <= Len(config.gates)
          /\ GateIterationOf(t, frames[FrameOf(t)],
                 EvaluateGate(config, config.gates[frames[FrameOf(t)].i],
                              threads[t].entity_state, features, now))
    /\ ThreadUnchanged

\* return decisions
ReturnDecisions ==
    /\ \E t \in ThreadIds :
          /\ threads[t].pc = "evaluating"
          /\ frames[FrameOf(t)].i > Len(config.gates)
          /\ threads' = [threads EXCEPT ![t].pc = "evaluated",
                            ![t].decisions = [raised |-> "none",
                                              decisions |-> frames[FrameOf(t)].decisions]]
    /\ UNCHANGED frames
    /\ ThreadUnchanged

\* new_state = deepcopy(dict(entity_state)), the setdefault calls and the
\* isinstance checks of apply_decisions(entity_state, decisions, caused_by,
\* use_schema_envelopes=True).
CallApplyOf(t, copy, new_state) ==
    IF Malformed(new_state)
    THEN /\ threads' = [threads EXCEPT ![t].pc = "done", ![t].shared = copy.shared,
                            ![t].applied = [raised |-> "ValueError", new_state |-> new_state,
                                            emissions |-> <<>>]]
         /\ UNCHANGED frames
    ELSE /\ threads' = [threads EXCEPT ![t].pc = "applying", ![t].shared = copy.shared]
         /\ frames' = [frames EXCEPT ![FrameOf(t)].i = 1,
                                     ![FrameOf(t)].batch = threads[t].decisions.decisions,
                                     ![FrameOf(t)].new_state = new_state,
                                     ![FrameOf(t)].emissions = <<>>]

CallApply ==
    /\ \E t \in ThreadIds :
          /\ threads[t].pc = "evaluated"
          /\ CallApplyOf(t, CopyState(threads[t].entity_state),
                         WithDefaults(CopyState(threads[t].entity_state).obj))
    /\ ThreadUnchanged

\* One iteration of "for decision in decisions": the attempt, the transition,
\* the tasks, the cooldown.  The caller's object changes with the working copy
\* in the collections the two share.
DecisionIterationOf(t, frame, new_state, tasks) ==
    IF tasks.raised # "none"
    THEN /\ threads' = [threads EXCEPT ![t].pc = "done",
                            ![t].entity_state =
                                CallerAfter(threads[t].entity_state, threads[t].shared, new_state),
                            ![t].applied = [raised |-> tasks.raised, new_state |-> new_state,
                                            emissions |-> tasks.emissions]]
         /\ UNCHANGED frames
    ELSE /\ frames' = [frames EXCEPT ![FrameOf(t)].i = frame.i + 1,
                            ![FrameOf(t)].new_state = WithCooldown(new_state, frame.batch[frame.i]),
                            ![FrameOf(t)].emissions = tasks.emissions]
         /\ threads' = [threads EXCEPT ![t].entity_state =
                            CallerAfter(threads[t].entity_state, threads[t].shared,
                                        WithCooldown(new_state, frame.batch[frame.i]))]

DecisionIterationOn(t, frame, new_state) ==
    DecisionIterationOf(t, frame, new_state,
        Tasks(new_state, frame.batch[frame.i], threads[t].caused_by, TRUE, frame.emissions))

DecisionIteration ==
    /\ \E t \in ThreadIds :
          /\ threads[t].pc = "applying"
          /\ frames[FrameOf(t)].i <= Len(frames[FrameOf(t)].batch)
          /\ DecisionIterationOn(t, frames[FrameOf(t)],
                 WithTransition(WithAttempt(frames[FrameOf(t)].new_state,
                                            frames[FrameOf(t)].batch[frames[FrameOf(t)].i]),
                                frames[FrameOf(t)].batch[frames[FrameOf(t)].i],
                                threads[t].caused_by))
    /\ ThreadUnchanged

\* return new_state, emissions
ReturnApplied ==
    /\ \E t \in ThreadIds :
          /\ threads[t].pc = "applying"
          /\ frames[FrameOf(t)].i > Len(frames[FrameOf(t)].batch)
          /\ threads' = [threads EXCEPT ![t].pc = "done",
                            ![t].applied = [raised |-> "none",
                                            new_state |-> frames[FrameOf(t)].new_state,
                                            emissions |-> frames[FrameOf(t)].emissions]]
    /\ UNCHANGED frames
    /\ ThreadUnchanged

NextThreads ==
    \/ CallEvaluate
    \/ GateIteration
    \/ ReturnDecisions
    \/ CallApply
    \/ DecisionIteration
    \/ ReturnApplied

SpecThreads == InitThreads /\ [][NextThreads]_vars

-----------------------------------------------------------------------------
(* learning.py: evaluate_attempt_outcomes                                  *)

PyBool(b) == [kind |-> "bool", v |-> b]

\* bool(value)
Truthy(value) ==
    IF value.kind = "none" THEN FALSE
    ELSE IF value.kind = "bool" THEN value.v
    ELSE IF value.kind = "int" THEN value.v # 0
    ELSE IF value.kind = "str" THEN value.v # ""
    ELSE IF value.kind = "list" THEN value.v # <<>>
    ELSE IF value.kind = "map" THEN DOMAIN value.v # {}
    ELSE TRUE

\* str(value)
StrOf(value) ==
    IF value.kind = "str" THEN value.v
    ELSE IF value.kind = "none" THEN "None"
    ELSE ToString(value.v)

\* _as_utc: a naive datetime is taken as UTC, an aware one keeps its instant.
_as_utc(value) ==
    PyDatetime(value.t, TRUE)

\* Mutant: the taxonomy is consulted before the label is looked at.
classify_failure_reason_taxonomy_first(label, taxonomy_map, default_reason) ==
    IF Truthy(taxonomy_map) /\ label \in DOMAIN taxonomy_map.v THEN taxonomy_map.v[label].v
    ELSE IF label \in {"true_positive", "true_negative"} THEN None
    ELSE default_reason

classify_failure_reason(label, taxonomy_map, default_reason) ==
    IF label \in {"true_positive", "true_negative"} THEN None
    ELSE IF Truthy(taxonomy_map) /\ label \in DOMAIN taxonomy_map.v THEN taxonomy_map.v[label].v
    ELSE default_reason

DefaultReason == "unknown_failure"

\* for outcome in outcomes: the (timestamp, success) rows of the outcomes whose
\* timestamp is a datetime.
RECURSIVE NormalizedOutcomes(_)
NormalizedOutcomes(outcomes) ==
    IF outcomes = <<>> THEN <<>>
    ELSE (IF MapGet(Head(outcomes), "timestamp").kind # "datetime" THEN <<>>
          ELSE <<[ts |-> _as_utc(Head(outcomes)["timestamp"]),
                  success |-> Truthy(MapGet(Head(outcomes), "success"))]>>)
         \o NormalizedOutcomes(Tail(outcomes))

RECURSIVE InsertOutcome(_, _)
InsertOutcome(sorted, row) ==
    IF sorted = <<>> THEN <<row>>
    ELSE IF row.ts.t < Head(sorted).ts.t THEN <<row>> \o sorted
    ELSE <<Head(sorted)>> \o InsertOutcome(Tail(sorted), row)

\* normalized_outcomes.sort(key=lambda row: row[0])
RECURSIVE SortOutcomes(_)
SortOutcomes(rows) ==
    IF rows = <<>> THEN <<>>
    ELSE InsertOutcome(SortOutcomes(SubSeq(rows, 1, Len(rows) - 1)), rows[Len(rows)])

\* Mutant: the end of the window is left out.
InWindowOpenEnd(ts, attempt_ts, window_end) ==
    attempt_ts <= ts /\ ts < window_end

\* attempt_ts <= ts <= window_end
InWindow(ts, attempt_ts, window_end) ==
    attempt_ts <= ts /\ ts <= window_end

\* in_window = [success for ts, success in normalized_outcomes if attempt_ts <= ts <= window_end]
RECURSIVE WindowOf(_, _, _)
WindowOf(normalized_outcomes, attempt_ts, window_end) ==
    IF normalized_outcomes = <<>> THEN <<>>
    ELSE (IF InWindow(Head(normalized_outcomes).ts.t, attempt_ts, window_end)
          THEN <<Head(normalized_outcomes).success>> ELSE <<>>)
         \o WindowOf(Tail(normalized_outcomes), attempt_ts, window_end)

\* any(in_window)
AnyTrue(in_window) ==
    \E k \in 1..Len(in_window) : in_window[k]

LabelOf(passed, success_observed) ==
    IF passed /\ success_observed THEN "true_positive"
    ELSE IF passed /\ ~success_observed THEN "moved_too_early"
    ELSE IF ~passed /\ success_observed THEN "false_negative"
    ELSE "true_negative"

\* AttemptOutcomeEvaluation(...)
AttemptOutcomeEvaluation(attempt, attempt_ts, in_window, label, failure_taxonomy_map) ==
    [attempt_id |-> StrOf(GetOr(attempt, "attempt_id", PyStr(""))),
     gate_id |-> StrOf(GetOr(attempt, "gate_id", PyStr(""))),
     label |-> label,
     success_observed |-> AnyTrue(in_window),
     outcomes_count |-> Len(in_window),
     failure_reason |-> classify_failure_reason(label, failure_taxonomy_map, DefaultReason),
     attempted_at |-> attempt_ts]

\* The body of "for attempt in attempts" for an attempt with a datetime.
EvaluatedAttempt(attempt, attempt_ts, in_window, failure_taxonomy_map) ==
    AttemptOutcomeEvaluation(attempt, attempt_ts, in_window,
        LabelOf(Truthy(MapGet(attempt, "passed")), AnyTrue(in_window)), failure_taxonomy_map)

RECURSIVE AttemptRows(_, _, _, _)
AttemptRows(attempts, normalized_outcomes, outcome_window_seconds, failure_taxonomy_map) ==
    IF attempts = <<>> THEN <<>>
    ELSE (IF MapGet(Head(attempts), "attempted_at").kind # "datetime" THEN <<>>
          ELSE <<EvaluatedAttempt(Head(attempts), _as_utc(Head(attempts)["attempted_at"]),
                     WindowOf(normalized_outcomes, Head(attempts)["attempted_at"].t,
                              Head(attempts)["attempted_at"].t + outcome_window_seconds),
                     failure_taxonomy_map)>>)
         \o AttemptRows(Tail(attempts), normalized_outcomes, outcome_window_seconds,
                        failure_taxonomy_map)

\* The strings of the learning inputs, in Python's (code point) order.
LearningStrOrder ==
    <<"", "None", "a1", "a2", "a3", "g1", "g2">>

LearningRank(x) ==
    CHOOSE k \in 1..Len(LearningStrOrder) : LearningStrOrder[k] = x

\* key=lambda r: (r.gate_id, r.attempted_at, r.attempt_id)
RowSortKey(r) ==
    <<LearningRank(r.gate_id), r.attempted_at.t, LearningRank(r.attempt_id)>>

RECURSIVE InsertRow(_, _)
InsertRow(sorted, r) ==
    IF sorted = <<>> THEN <<r>>
    ELSE IF KeyLess(RowSortKey(r), RowSortKey(Head(sorted))) THEN <<r>> \o sorted
    ELSE <<Head(sorted)>> \o InsertRow(Tail(sorted), r)

\* Mutant: the rows stay in the order of the attempts.
SortRowsKeepsOrder(rows) ==
    rows

\* rows.sort(...): a stable sort by the key.
RECURSIVE SortRows(_)
SortRows(rows) ==
    IF rows = <<>> THEN <<>>
    ELSE InsertRow(SortRows(SubSeq(rows, 1, Len(rows) - 1)), rows[Len(rows)])

\* Mutant: a negative window is let through.
NegativeWindowNever(outcome_window_seconds) ==
    FALSE

\* if outcome_window_seconds < 0: raise ValueError
NegativeWindow(outcome_window_seconds) ==
    outcome_window_seconds < 0

evaluate_attempt_outcomes(attempts, outcomes, outcome_window_seconds, failure_taxonomy_map) ==
    IF NegativeWindow(outcome_window_seconds) THEN [raised |-> "ValueError", rows |-> <<>>]
    ELSE [raised |-> "none",
          rows |-> SortRows(AttemptRows(attempts, SortOutcomes(NormalizedOutcomes(outcomes)),
                                        outcome_window_seconds, failure_taxonomy_map))]

Attempt(attempt_id, gate_id, attempted_at, passed) ==
    [attempt_id |-> PyStr(attempt_id), gate_id |-> PyStr(gate_id),
     attempted_at |-> attempted_at, passed |-> PyBool(passed)]

Outcome(timestamp, success) ==
    [timestamp |-> timestamp, success |-> PyBool(success)]

AttemptPool ==
    {Attempt("a1", "g1", PyDatetime(1, TRUE), TRUE),
     Attempt("a2", "g1", PyDatetime(1, FALSE), FALSE),
     Attempt("a3", "g2", PyDatetime(0, TRUE), TRUE),
     Attempt("a1", "g2", PyDatetime(2, TRUE), FALSE),
     Attempt("a2", "g2", PyIsoStr(1, TRUE), TRUE),
     [gate_id |-> PyStr("g1"), attempted_at |-> PyDatetime(0, TRUE)]}

OutcomePool ==
    {Outcome(PyDatetime(1, TRUE), TRUE),
     Outcome(PyDatetime(2, FALSE), TRUE),
     Outcome(PyDatetime(1, TRUE), FALSE),
     Outcome(PyIsoStr(1, TRUE), TRUE),
     [timestamp |-> PyDatetime(2, TRUE)]}

Windows == {-1, 0, 1}

TaxonomyMaps ==
    {PyNone, PyMap(EmptyMap),
     PyMap([label \in {"moved_too_early", "true_positive", "true_negative"} |->
               PyStr(IF label = "moved_too_early" THEN "window_miss" ELSE "fine")])}

SeqsUpTo(pool, n) ==
    UNION {[1..k -> pool] : k \in 0..n}

InitOutcomes ==
    /\ \E attempts \in SeqsUpTo(AttemptPool, MaxAttempts),
          outcomes \in SeqsUpTo(OutcomePool, MaxOutcomes),
          outcome_window_seconds \in Windows,
          failure_taxonomy_map \in TaxonomyMaps :
          history = [attempts |-> attempts, outcomes |-> outcomes,
                     outcome_window_seconds |-> outcome_window_seconds,
                     failure_taxonomy_map |-> failure_taxonomy_map]
    /\ evaluations = NoCall
    /\ proposals = NoCall
    /\ config = NoConfig
    /\ backend = FALSE
    /\ features = EmptyMap
    /\ entity = EntityNew
    /\ now = PyDatetime(0, TRUE)
    /\ wall = 0
    /\ budget = 0
    /\ pc = "idle"
    /\ call = NoCall
    /\ decisions = NoCall
    /\ applied = NoCall
    /\ second = NoCall
    /\ document = NoCall
    /\ loaded = NoCall
    /\ requirement = NoCall
    /\ held = NoCall
    /\ threads = NoCall
    /\ frames = NoCall

\* rows = evaluate_attempt_outcomes(attempts, outcomes,
\*            outcome_window_seconds=..., failure_taxonomy_map=...)
EvaluateOutcomes ==
    /\ history # NoCall
    /\ evaluations = NoCall
    /\ evaluations' = [kind |-> "rows"] @@
           evaluate_attempt_outcomes(history.attempts, history.outcomes,
                                     history.outcome_window_seconds, history.failure_taxonomy_map)
    /\ UNCHANGED <<config, backend, features, entity, now, wall, budget, pc, call, decisions,
                   applied, second, document, loaded, requirement, held, threadVars,
                   history, proposals>>

-----------------------------------------------------------------------------
(* learning.py: generate_calibration_proposals                             *)

\* by_gate[gate_id]: the evaluations of a gate, in input order.
RECURSIVE SamplesOf(_, _)
SamplesOf(evs, gate_id) ==
    IF evs = <<>> THEN <<>>
    ELSE (IF Head(evs).gate_id = gate_id THEN <<Head(evs)>> ELSE <<>>)
         \o SamplesOf(Tail(evs), gate_id)

\* sum(1 for s in samples if s.label == label)
RECURSIVE CountLabel(_, _)
CountLabel(samples, label) ==
    IF samples = <<>> THEN 0
    ELSE (IF Head(samples).label = label THEN 1 ELSE 0) + CountLabel(Tail(samples), label)

\* Mutant: a gate is never skipped for want of samples.
TooFewSamplesNever(samples, min_samples) ==
    FALSE

\* if len(samples) < min_samples: continue
TooFewSamples(samples, min_samples) ==
    Len(samples) < min_samples

\* count / total, kept as the exact fraction.
Rate(count, total) ==
    [num |-> count, den |-> total]

\* Mutant: the comparison is strict.
RateAbove30(rate) ==
    10 * rate.num > 3 * rate.den

\* rate >= 0.30.  The quotient of two ints is the double nearest to the exact
\* fraction and 0.30 is the double nearest to 3/10, so for any list that fits
\* in memory the comparison of the doubles is the comparison of the fractions.
RateAtLeast30(rate) ==
    10 * rate.num >= 3 * rate.den

\* round(rate, 4), in ten-thousandths: the nearest one, there being no tie at
\* these sample counts.
Round4(rate) ==
    (20000 * rate.num + rate.den) \div (2 * rate.den)

\* Mutant: proposals are applied without review.
CalibrationProposalAutoApplied(gate_id, recommendation_type, direction, rationale, confidence) ==
    [gate_id |-> gate_id, recommendation_type |-> recommendation_type, direction |-> direction,
     rationale |-> rationale, confidence |-> confidence, auto_apply |-> TRUE]

\* CalibrationProposal(..., auto_apply=False)
CalibrationProposal(gate_id, recommendation_type, direction, rationale, confidence) ==
    [gate_id |-> gate_id, recommendation_type |-> recommendation_type, direction |-> direction,
     rationale |-> rationale, confidence |-> confidence, auto_apply |-> FALSE]

\* if fp_rate >= 0.30: the two proposals appended.
FalsePositiveProposals(gate_id, fp_rate) ==
    IF RateAtLeast30(fp_rate)
    THEN <<CalibrationProposal(gate_id, "threshold_adjustment", "increase",
                               "high moved_too_early rate", Round4(fp_rate)),
           CalibrationProposal(gate_id, "cooldown_adjustment", "increase",
                               "repeated early transitions in window", Round4(fp_rate))>>
    ELSE <<>>

\* Mutant: a high false_negative rate asks for a higher threshold as well.
FalseNegativeProposalsIncrease(gate_id, fn_rate) ==
    IF RateAtLeast30(fn_rate)
    THEN <<CalibrationProposal(gate_id, "threshold_adjustment", "increase",
                               "high false_negative rate", Round4(fn_rate))>>
    ELSE <<>>

\* if fn_rate >= 0.30: the proposal appended.
FalseNegativeProposals(gate_id, fn_rate) ==
    IF RateAtLeast30(fn_rate)
    THEN <<CalibrationProposal(gate_id, "threshold_adjustment", "decrease",
                               "high false_negative rate", Round4(fn_rate))>>
    ELSE <<>>

\* The body of "for gate_id in sorted(by_gate)".
GateProposals(gate_id, samples, min_samples) ==
    IF TooFewSamples(samples, min_samples) THEN <<>>
    ELSE FalsePositiveProposals(gate_id, Rate(CountLabel(samples, "moved_too_early"), Len(samples)))
         \o FalseNegativeProposals(gate_id, Rate(CountLabel(samples, "false_negative"), Len(samples)))

\* The strings of the proposal sort keys, in Python's (code point) order.
ProposalStrOrder ==
    <<"cooldown_adjustment", "decrease", "high false_negative rate", "high moved_too_early rate",
      "increase", "repeated early transitions in window", "threshold_adjustment">>

ProposalRank(x) ==
    CHOOSE k \in 1..Len(ProposalStrOrder) : ProposalStrOrder[k] = x

\* key=lambda p: (p.gate_id, p.recommendation_type, p.direction, p.rationale)
ProposalLess(a, b) ==
    \/ LearningRank(a.gate_id) < LearningRank(b.gate_id)
    \/ /\ a.gate_id = b.gate_id
       /\ KeyLess(<<ProposalRank(a.recommendation_type), ProposalRank(a.direction),
                    ProposalRank(a.rationale)>>,
                  <<ProposalRank(b.recommendation_type), ProposalRank(b.direction),
                    ProposalRank(b.rationale)>>)

RECURSIVE InsertProposal(_, _)
InsertProposal(sorted, proposal) ==
    IF sorted = <<>> THEN <<proposal>>
    ELSE IF ProposalLess(proposal, Head(sorted)) THEN <<proposal>> \o sorted
    ELSE <<Head(sorted)>> \o InsertProposal(Tail(sorted), proposal)

\* Mutant: the proposals stay in the order they were appended in.
SortProposalsKeepsOrder(unsorted) ==
    unsorted

\* proposals.sort(...)
RECURSIVE SortProposals(_)
SortProposals(unsorted) ==
    IF unsorted = <<>> THEN <<>>
    ELSE InsertProposal(SortProposals(SubSeq(unsorted, 1, Len(unsorted) - 1)),
                        unsorted[Len(unsorted)])

\* sorted(by_gate): the gate ids of the evaluations, in order.
RECURSIVE SortedGateIds(_, _)
SortedGateIds(evs, k) ==
    IF k > Len(LearningStrOrder) THEN <<>>
    ELSE (IF \E n \in 1..Len(evs) : evs[n].gate_id = LearningStrOrder[k]
          THEN <<LearningStrOrder[k]>> ELSE <<>>)
         \o SortedGateIds(evs, k + 1)

RECURSIVE ProposalsLoop(_, _, _)
ProposalsLoop(evs, gate_ids, min_samples) ==
    IF gate_ids = <<>> THEN <<>>
    ELSE GateProposals(Head(gate_ids), SamplesOf(evs, Head(gate_ids)), min_samples)
         \o ProposalsLoop(evs, Tail(gate_ids), min_samples)

generate_calibration_proposals(evs, min_samples) ==
    IF min_samples < 1 THEN [raised |-> "ValueError", proposals |-> <<>>]
    ELSE [raised |-> "none",
          proposals |-> SortProposals(ProposalsLoop(evs, SortedGateIds(evs, 1), min_samples))]

\* Mutant: the list handed in is emptied while it is grouped.
EvaluationsDrained(evs) ==
    <<>>

\* The caller's list after the call: it was iterated, never written.
EvaluationsAfter(evs) ==
    evs

\* An evaluation of a gate with a label, as evaluate_attempt_outcomes returns it.
LabeledRow(gate_id, label) ==
    [attempt_id |-> "a1", gate_id |-> gate_id, label |-> label,
     success_observed |-> label \in {"true_positive", "false_negative"},
     outcomes_count |-> IF label \in {"true_positive", "false_negative"} THEN 1 ELSE 0,
     failure_reason |-> IF label \in {"true_positive", "true_negative"} THEN None
                        ELSE "unknown_failure",
     attempted_at |-> PyDatetime(0, TRUE)]

\* The evaluations of one gate: early moved_too_early rows, missed
\* false_negative rows and right rows of the two remaining labels.
GateRows(gate_id, early, missed, right) ==
    [n \in 1..(early + missed + right) |->
        LabeledRow(gate_id,
            IF n <= early THEN "moved_too_early"
            ELSE IF n <= early + missed THEN "false_negative"
            ELSE IF n % 2 = 0 THEN "true_positive" ELSE "true_negative")]

EvaluationLists ==
    {first \o GateRows("g1", early, missed, right) \o last :
        early \in 0..MaxSamples, missed \in 0..MaxSamples, right \in 0..MaxSamples,
        first \in {<<>>, GateRows("g2", 1, 0, 1)},
        last \in {<<>>, GateRows("g2", 0, 2, 1), GateRows("g2", 1, 0, 0)}}

MinSamples == {0, 1, 3}

InitProposals ==
    /\ \E evs \in {list \in EvaluationLists :
                      Len(SamplesOf(list, "g1")) <= MaxSamples} :
          /\ history = [kind |-> "given", rows |-> evs]
          /\ evaluations = [kind |-> "rows", raised |-> "none", rows |-> evs]
    /\ proposals = NoCall
    /\ config \in CycleConfigs
    /\ backend = FALSE
    /\ features = EmptyMap
    /\ entity = EntityNew
    /\ now = PyDatetime(0, TRUE)
    /\ wall = 0
    /\ budget = 0
    /\ pc = "idle"
    /\ call = NoCall
    /\ decisions = NoCall
    /\ applied = NoCall
    /\ second = NoCall
    /\ document = NoCall
    /\ loaded = NoCall
    /\ requirement = NoCall
    /\ held = NoCall
    /\ threads = NoCall
    /\ frames = NoCall

\* proposals = generate_calibration_proposals(rows, min_samples=...), rows
\* being what the caller holds: the labeled attempts, or none when the
\* labeling raised.
Propose ==
    /\ evaluations # NoCall
    /\ proposals = NoCall
    /\ \E min_samples \in MinSamples :
          proposals' = [kind |-> "proposals", min_samples |-> min_samples] @@
                           generate_calibration_proposals(evaluations.rows, min_samples)
    /\ evaluations' = [evaluations EXCEPT !.rows = EvaluationsAfter(evaluations.rows)]
    /\ UNCHANGED <<config, backend, features, entity, now, wall, budget, pc, call, decisions,
                   applied, second, document, loaded, requirement, held, threadVars, history>>

\* The attempts are labeled, then proposals are drawn from the labels.
NextOutcomes ==
    \/ EvaluateOutcomes
    \/ Propose

SpecOutcomes == InitOutcomes /\ [][NextOutcomes]_vars

\* The labeled set again, in the order given.
Reversed(s) ==
    [n \in 1..Len(s) |-> s[Len(s) + 1 - n]]

\* The call made once more with the same min_samples, on the list as it now
\* is or on the same rows in the opposite order.
ProposeAgain ==
    /\ proposals # NoCall
    /\ second = NoCall
    /\ \E rows \in {evaluations.rows, Reversed(evaluations.rows)} :
          second' = [kind |-> "proposals", min_samples |-> proposals.min_samples,
                     rows |-> rows] @@
                        generate_calibration_proposals(rows, proposals.min_samples)
    /\ UNCHANGED <<config, backend, features, entity, now, wall, budget, pc, call, decisions,
                   applied, document, loaded, requirement, held, threadVars, learningVars>>

NextProposals ==
    \/ Propose
    \/ ProposeAgain

SpecProposals == InitProposals /\ [][NextProposals]_vars

-----------------------------------------------------------------------------
(* Properties.                                                             *)

\* The gate of the configuration a decision was taken for.
GateOf(decision) ==
    CHOOSE g \in {config.gates[i] : i \in 1..Len(config.gates)} : g.gate_id = decision.gate_id

Returned == decisions # NoCall /\ decisions.raised = "none"

DecisionIndices == IF Returned THEN 1..Len(decisions.decisions) ELSE {}

\* (gate_id, passed, reason) of each decision, in order.
Verdicts(ds) ==
    [i \in 1..Len(ds) |-> <<ds[i].gate_id, ds[i].passed, ds[i].reason>>]

CooldownEntry(g) ==
    LET cooldowns == MapGet(call.entity_state, "gate_cooldowns")
    IN  IF cooldowns.kind = "map" THEN MapGet(cooldowns.v, g.gate_id) ELSE PyNone

\* The entry is a timestamp last, and now < last + cooldown_seconds.
InCooldown(g) ==
    /\ g.cooldown_seconds > 0
    /\ CooldownEntry(g).kind \in {"isostr", "datetime"}
    /\ call.now.t < CooldownEntry(g).t + g.cooldown_seconds

\* The operator-supplied reason for the gate, None when there is none.
SuppliedOverride(g) ==
    LET overrides == MapGet(call.entity_state, "failure_overrides")
        entry == IF overrides.kind = "map" THEN MapGet(overrides.v, g.gate_id) ELSE PyNone
    IN  IF entry.kind = "str" /\ entry.v # "" THEN entry.v ELSE None

Blocked(i) ==
    /\ ~decisions.decisions[i].passed
    /\ decisions.decisions[i].cooldown_active
    /\ decisions.decisions[i].failed_requirement_id = None
    /\ decisions.probes[i] = [hard |-> 0, soft |-> 0]

\* C2 as stated: a gate inside its cooldown window is blocked with reason
\* "cooldown_active" and none of its predicates is evaluated.
C2_Original ==
    \A i \in DecisionIndices :
        InCooldown(GateOf(decisions.decisions[i])) =>
            Blocked(i) /\ decisions.decisions[i].reason = "cooldown_active"

\* C2: a gate inside its cooldown window is blocked and none of its predicates
\* is evaluated; the reason is the override supplied for the gate, and
\* "cooldown_active" when there is none.
C2_CooldownBlocks ==
    \A i \in DecisionIndices :
        LET g == GateOf(decisions.decisions[i])
        IN  InCooldown(g) =>
                /\ Blocked(i)
                /\ decisions.decisions[i].reason =
                      (IF SuppliedOverride(g) # None THEN SuppliedOverride(g) ELSE "cooldown_active")

C2_Witness ==
    \E i \in DecisionIndices :
        /\ InCooldown(GateOf(decisions.decisions[i]))
        /\ Len(GateOf(decisions.decisions[i]).hard_requirements) > 0
        /\ Len(GateOf(decisions.decisions[i]).soft_thresholds) > 0
        /\ decisions.decisions[i].reason = "cooldown_active"

\* Whether a predicate of the gate holds on the evaluated inputs.
Holds(predicate) ==
    LET res == _requirement_passed(PredicateSource(predicate, call.entity_state, call.features),
                                   predicate.field, predicate.op, predicate.value)
    IN  res.raised = "none" /\ res.val

SatisfiedThresholds(g) ==
    {j \in 1..Len(g.soft_thresholds) : Holds(g.soft_thresholds[j])}

FailingRequirements(g) ==
    {j \in 1..Len(g.hard_requirements) : ~Holds(g.hard_requirements[j])}

\* k: min_soft_passed, or the number of thresholds when it is unset.
Quorum(g) ==
    IF g.min_soft_passed = NoQuorum THEN Len(g.soft_thresholds) ELSE g.min_soft_passed

\* C3: a gate not in cooldown whose hard requirements all hold and that has
\* soft thresholds passes iff the number of satisfied thresholds is >= k.
C3_Quorum ==
    \A i \in DecisionIndices :
        LET g == GateOf(decisions.decisions[i])
        IN  (~InCooldown(g) /\ FailingRequirements(g) = {} /\ Len(g.soft_thresholds) > 0) =>
                (decisions.decisions[i].passed <=> Cardinality(SatisfiedThresholds(g)) >= Quorum(g))

C3_Witness ==
    \E i \in DecisionIndices :
        LET g == GateOf(decisions.decisions[i])
        IN  /\ ~InCooldown(g) /\ FailingRequirements(g) = {}
            /\ Len(g.soft_thresholds) = 2
            /\ Cardinality(SatisfiedThresholds(g)) = 1
            /\ decisions.decisions[i].passed

WithoutOverrides(entity_state) ==
    [k \in (DOMAIN entity_state) \ {"failure_overrides"} |-> entity_state[k]]

\* The evaluation of the same inputs with failure_overrides taken out.
BareEvaluation ==
    evaluate_gates(config, WithoutOverrides(call.entity_state), call.features, call.now)

SameVerdicts(ds, bare) ==
    /\ Len(ds) = Len(bare)
    /\ \A i \in 1..Len(ds) :
          /\ ds[i].gate_id = bare[i].gate_id
          /\ ds[i].passed = bare[i].passed
          /\ ds[i].failed_requirement_id = bare[i].failed_requirement_id
          /\ ds[i].cooldown_active = bare[i].cooldown_active
          /\ (ds[i].reason # bare[i].reason => ~ds[i].passed /\ ~bare[i].passed)

HasOverrides ==
    call # NoCall /\ "failure_overrides" \in DOMAIN call.entity_state

\* C4 as stated: with and without failure_overrides the decisions agree on
\* passed, failed_requirement_id and cooldown_active, and only the reason of a
\* failing decision differs.
C4_Original ==
    (HasOverrides /\ Returned /\ BareEvaluation.raised = "none") =>
        SameVerdicts(decisions.decisions, BareEvaluation.decisions)

ReadsOverrides(predicate) ==
    predicate.source = "entity" /\ predicate.field[1] = "failure_overrides"

NoGateReadsOverrides ==
    \A n \in 1..Len(config.gates) :
        /\ \A j \in 1..Len(config.gates[n].hard_requirements) :
              ~ReadsOverrides(config.gates[n].hard_requirements[j])
        /\ \A j \in 1..Len(config.gates[n].soft_thresholds) :
              ~ReadsOverrides(config.gates[n].soft_thresholds[j])

\* C4: when no predicate of the configuration reads failure_overrides from the
\* entity state, the evaluations with and without failure_overrides end the
\* same way and their decisions agree on passed, failed_requirement_id and
\* cooldown_active; only the reason of a failing decision differs.
C4_OverrideKeepsVerdict ==
    (HasOverrides /\ NoGateReadsOverrides) =>
        /\ BareEvaluation.raised = decisions.raised
        /\ SameVerdicts(decisions.decisions, BareEvaluation.decisions)

C4_Witness ==
    /\ HasOverrides /\ NoGateReadsOverrides /\ Returned
    /\ \E i \in DecisionIndices :
          /\ decisions.decisions[i].reason = "manual_hold"
          /\ BareEvaluation.decisions[i].reason = "hard_requirement_failed"

\* The match filter: the state equals from_state, and the track is unset on
\* the gate or equals the entity's.
Matching(g) ==
    /\ EqStr(MapGet(call.entity_state, "state"), g.from_state)
    /\ (g.track = None \/ EqStr(MapGet(call.entity_state, "track"), g.track))

RECURSIVE MatchingIds(_)
MatchingIds(n) ==
    IF n > Len(config.gates) THEN <<>>
    ELSE (IF Matching(config.gates[n]) THEN <<config.gates[n].gate_id>> ELSE <<>>)
         \o MatchingIds(n + 1)

\* C5: the decisions are one per matching gate, in the configuration's gate
\* order, and none for any other gate.
C5_OnePerMatchingGate ==
    Returned =>
        [i \in 1..Len(decisions.decisions) |-> decisions.decisions[i].gate_id] = MatchingIds(1)

C5_Witness ==
    /\ Returned
    /\ Len(config.gates) = 2
    /\ Len(decisions.decisions) = 1
    /\ \E n \in 1..2 :
          /\ config.gates[n].gate_id # decisions.decisions[1].gate_id
          /\ EqStr(MapGet(call.entity_state, "state"), config.gates[n].from_state)

FirstFailing(g) ==
    CHOOSE j \in FailingRequirements(g) : \A k \in FailingRequirements(g) : j <= k

TaxonomyReason(g, requirement_id) ==
    IF requirement_id \in DOMAIN g.failure_taxonomy
    THEN g.failure_taxonomy[requirement_id]
    ELSE "hard_requirement_failed"

\* C6: a matching gate not in cooldown with a failing hard requirement fails
\* with the id of the first failing one, evaluates no requirement after it and
\* no soft threshold, and, absent an override, gives the taxonomy's reason for
\* that id or "hard_requirement_failed".
C6_FirstFailingRequirement ==
    \A i \in DecisionIndices :
        LET g == GateOf(decisions.decisions[i])
            d == decisions.decisions[i]
        IN  (~InCooldown(g) /\ FailingRequirements(g) # {}) =>
                /\ ~d.passed
                /\ d.failed_requirement_id = g.hard_requirements[FirstFailing(g)].requirement_id
                /\ decisions.probes[i] = [hard |-> FirstFailing(g), soft |-> 0]
                /\ (SuppliedOverride(g) = None =>
                       d.reason = TaxonomyReason(g, d.failed_requirement_id))

C6_Witness ==
    \E i \in DecisionIndices :
        LET g == GateOf(decisions.decisions[i])
        IN  /\ ~InCooldown(g)
            /\ Len(g.hard_requirements) = 2
            /\ FailingRequirements(g) = {1, 2}
            /\ SuppliedOverride(g) = None
            /\ decisions.decisions[i].reason = "hard_requirement_failed"

\* The requirements of a gate all hold: no hard requirement fails and the
\* soft thresholds, when it has any, reach the quorum.
RequirementsHold(g) ==
    /\ FailingRequirements(g) = {}
    /\ (Len(g.soft_thresholds) = 0 \/ Cardinality(SatisfiedThresholds(g)) >= Quorum(g))

\* The list an entity state holds under a key, empty when the key is absent.
ListOf(entity_state, key) ==
    IF key \in DOMAIN entity_state THEN entity_state[key].v ELSE <<>>

TaskIds(emissions) ==
    [j \in 1..Len(emissions) |-> emissions[j].task_id]

AppliedAlone ==
    /\ applied.kind = "apply" /\ applied.raised = "none"
    /\ Len(applied.batch) = 1 /\ applied.batch[1].passed

\* C7: a matching gate S->T not in cooldown whose requirements all hold gets a
\* passing decision; apply_decisions on that decision alone yields state T,
\* one new attempt record, one new transition-applied record and one emission
\* per task id of enqueue_tasks_on_pass, and the resulting state is the one the
\* next cycle evaluates; every evaluation yields decisions only for gates
\* whose from_state is the state of the entity it evaluates.
C7_CycleAdvances ==
    /\ \A i \in DecisionIndices :
          LET g == GateOf(decisions.decisions[i])
          IN  (~InCooldown(g) /\ RequirementsHold(g)) =>
                  /\ decisions.decisions[i].passed
                  /\ decisions.decisions[i].to_state = g.to_state
    /\ AppliedAlone =>
          /\ applied.new_state["state"] = PyStr(applied.batch[1].to_state)
          /\ Len(ListOf(applied.new_state, "gate_attempts"))
                = Len(ListOf(applied.entity_state, "gate_attempts")) + 1
          /\ Len(ListOf(applied.new_state, "transitions_applied"))
                = Len(ListOf(applied.entity_state, "transitions_applied")) + 1
          /\ TaskIds(applied.emissions) = applied.batch[1].enqueue_tasks_on_pass
          /\ entity = applied.new_state
    /\ \A i \in DecisionIndices :
          EqStr(MapGet(call.entity_state, "state"), decisions.decisions[i].from_state)

\* A second cycle: the entity advanced by an earlier cycle is evaluated, the
\* gate leaving its new state passes and is applied alone.
C7_Witness ==
    /\ budget < MaxCycles - 1
    /\ Len(ListOf(call.entity_state, "transitions_applied")) > 0
    /\ AppliedAlone
    /\ applied.batch[1].from_state = "OBSERVED"
    /\ applied.new_state["state"] = PyStr("PROFILED")
    /\ Len(applied.emissions) = 2

C9_CallerStateUntouched ==
    applied.kind = "apply" => applied.caller_after = applied.entity_state

\* The call raised after its loop had written to the working copy.
C9_Witness ==
    /\ applied.kind = "apply"
    /\ applied.raised = "ValueError"
    /\ \E k \in MutableKeys(applied.entity_state) :
          applied.new_state[k] # applied.entity_state[k]

\* The fields of an attempt record the decision determines.
AttemptFields(record) ==
    [gate_id |-> record.gate_id, from |-> record.from, to |-> record.to,
     passed |-> record.passed, reason |-> record.reason,
     failed_requirement_id |-> record.failed_requirement_id,
     timestamp |-> record.timestamp]

ExpectedAttempt(decision) ==
    [gate_id |-> decision.gate_id, from |-> decision.from_state, to |-> decision.to_state,
     passed |-> decision.passed, reason |-> decision.reason,
     failed_requirement_id |-> decision.failed_requirement_id,
     timestamp |-> isoformat(decision.transition_attempted.timestamp)]

\* C10: the gate_attempts apply_decisions returns is the input gate_attempts
\* followed by one record per decision of the batch, passing or failing, in
\* decision order, each with the decision's gate_id, from, to, passed, reason,
\* failed_requirement_id and timestamp.
C10_OneAttemptPerDecision ==
    (applied.kind = "apply" /\ applied.raised = "none") =>
        LET before == ListOf(applied.entity_state, "gate_attempts")
            after == ListOf(applied.new_state, "gate_attempts")
        IN  /\ Len(after) = Len(before) + Len(applied.batch)
            /\ SubSeq(after, 1, Len(before)) = before
            /\ \A i \in 1..Len(applied.batch) :
                  AttemptFields(after[Len(before) + i]) = ExpectedAttempt(applied.batch[i])

C10_Witness ==
    /\ applied.kind = "apply" /\ applied.raised = "none"
    /\ Len(ListOf(applied.entity_state, "gate_attempts")) > 0
    /\ Len(applied.batch) = 2
    /\ applied.batch[1].passed # applied.batch[2].passed

PassingDecisions(batch) ==
    SelectSeq(batch, LAMBDA d : d.passed)

\* The fields of a transition-applied record besides its snapshot.
TransitionFields(record) ==
    [gate_id |-> record.gate_id, from |-> record.from, to |-> record.to,
     caused_by |-> record.caused_by, timestamp |-> record.timestamp]

ExpectedTransition(decision, caused_by) ==
    [gate_id |-> decision.gate_id, from |-> decision.from_state, to |-> decision.to_state,
     caused_by |-> caused_by,
     timestamp |-> isoformat(decision.transition_attempted.timestamp)]

AppliedReturned ==
    applied.kind = "apply" /\ applied.raised = "none"

\* C11: the transitions_applied apply_decisions returns is the input log
\* followed by one record per passing decision of the batch, in order; a batch
\* with no passing decision leaves state and transitions_applied as they were
\* and returns no emissions.
C11_TransitionsOnlyOnPass ==
    AppliedReturned =>
        LET before == ListOf(applied.entity_state, "transitions_applied")
            after == ListOf(applied.new_state, "transitions_applied")
            passing == PassingDecisions(applied.batch)
        IN  /\ Len(after) = Len(before) + Len(passing)
            /\ SubSeq(after, 1, Len(before)) = before
            /\ \A i \in 1..Len(passing) :
                  TransitionFields(after[Len(before) + i])
                      = ExpectedTransition(passing[i], applied.caused_by)
            /\ passing = <<>> =>
                  /\ MapGet(applied.new_state, "state") = MapGet(applied.entity_state, "state")
                  /\ applied.emissions = <<>>

\* A later cycle: the input log holds a transition and the batch has one
\* passing decision.
C11_Witness ==
    /\ AppliedReturned
    /\ Len(ListOf(applied.entity_state, "transitions_applied")) > 0
    /\ Len(PassingDecisions(applied.batch)) = 1
    /\ Len(ListOf(applied.new_state, "transitions_applied"))
          = Len(ListOf(applied.entity_state, "transitions_applied")) + 1

\* The fields of an emission every emission has.
EmissionFields(emission) ==
    [kind |-> emission.kind, task_id |-> emission.task_id, gate_id |-> emission.gate_id,
     gate_version |-> emission.gate_version, entity_id |-> emission.entity_id,
     from_state |-> emission.from_state, to_state |-> emission.to_state,
     caused_by |-> emission.caused_by, timestamp |-> emission.timestamp]

ExpectedEmission(decision, task, entity_state, caused_by) ==
    [kind |-> "task_enqueued", task_id |-> task, gate_id |-> decision.gate_id,
     gate_version |-> decision.gate_version, entity_id |-> MapGet(entity_state, "entity_id"),
     from_state |-> decision.from_state, to_state |-> decision.to_state,
     caused_by |-> caused_by,
     timestamp |-> isoformat(decision.transition_attempted.timestamp)]

\* One emission per task id of each passing decision, in batch order.
RECURSIVE ExpectedEmissions(_, _, _, _)
ExpectedEmissions(batch, i, entity_state, caused_by) ==
    IF i > Len(batch) THEN <<>>
    ELSE (IF batch[i].passed
          THEN [j \in 1..Len(batch[i].enqueue_tasks_on_pass) |->
                   ExpectedEmission(batch[i], batch[i].enqueue_tasks_on_pass[j],
                                    entity_state, caused_by)]
          ELSE <<>>)
         \o ExpectedEmissions(batch, i + 1, entity_state, caused_by)

\* C12: the emissions apply_decisions returns are, over the passing decisions
\* in batch order, one emission per task id of enqueue_tasks_on_pass in
\* declared order, each with kind "task_enqueued", the decision's gate_id,
\* gate_version, from_state and to_state, the entity_id, caused_by and the
\* attempt timestamp; failing decisions contribute none.
C12_EmissionsPerTask ==
    AppliedReturned =>
        [j \in 1..Len(applied.emissions) |-> EmissionFields(applied.emissions[j])]
            = ExpectedEmissions(applied.batch, 1, applied.entity_state, applied.caused_by)

\* Two passing decisions with tasks in one batch, with schema payloads attached.
C12_Witness ==
    /\ AppliedReturned
    /\ Len(applied.batch) = 2
    /\ applied.batch[1].passed /\ applied.batch[2].passed
    /\ Len(applied.emissions) = 2
    /\ applied.emissions[1].gate_id = applied.batch[1].gate_id
    /\ applied.emissions[2].gate_id = applied.batch[2].gate_id
    /\ "schema" \in DOMAIN applied.emissions[1]

\* The gate_cooldowns mapping of an entity state, empty when the key is absent.
CooldownsOf(entity_state) ==
    IF "gate_cooldowns" \in DOMAIN entity_state THEN entity_state["gate_cooldowns"].v ELSE EmptyMap

\* The decisions of the batch for gate g whose cooldown policy fires.
Firing(batch, g) ==
    {i \in 1..Len(batch) :
        /\ batch[i].gate_id = g
        /\ \/ batch[i].cooldown_on = "attempt"
           \/ batch[i].cooldown_on = "pass" /\ batch[i].passed}

LastOf(indices) ==
    CHOOSE i \in indices : \A j \in indices : j <= i

BatchGateIds(batch) ==
    {batch[i].gate_id : i \in 1..Len(batch)}

\* C13: after apply_decisions, gate_cooldowns[g] is the (ISO) attempt timestamp
\* of the last decision for g in the batch whose policy fires (cooldown_on
\* "attempt", or "pass" and passed); for a gate with no such decision, a
\* failing decision with cooldown_on "pass" included, the entry is unchanged.
C13_CooldownUpdate ==
    AppliedReturned =>
        LET before == CooldownsOf(applied.entity_state)
            after == CooldownsOf(applied.new_state)
        IN  \A g \in (DOMAIN before) \cup (DOMAIN after) \cup BatchGateIds(applied.batch) :
                IF Firing(applied.batch, g) # {}
                THEN /\ g \in DOMAIN after
                     /\ after[g] = isoformat(applied.batch[LastOf(Firing(applied.batch, g))]
                                                .transition_attempted.timestamp)
                ELSE /\ g \in DOMAIN after <=> g \in DOMAIN before
                     /\ g \in DOMAIN before => after[g] = before[g]

\* One batch with a failing decision under policy "pass" whose entry stays and
\* a decision under policy "attempt" whose entry is rewritten.
C13_Witness ==
    /\ AppliedReturned
    /\ \E i, j \in 1..Len(applied.batch) :
          /\ applied.batch[i].cooldown_on = "pass" /\ ~applied.batch[i].passed
          /\ applied.batch[i].gate_id \in DOMAIN CooldownsOf(applied.entity_state)
          /\ applied.batch[j].cooldown_on = "attempt"
          /\ applied.batch[j].gate_id \in DOMAIN CooldownsOf(applied.entity_state)
          /\ CooldownsOf(applied.new_state)[applied.batch[j].gate_id]
                # CooldownsOf(applied.entity_state)[applied.batch[j].gate_id]

\* The attempt records of the evaluated entity state with which an earlier
\* apply_decisions recorded a cooldown timestamp for gate g.
RecordedCooldowns(g) ==
    LET attempts == ListOf(call.entity_state, "gate_attempts")
    IN  {n \in 1..Len(attempts) :
            /\ attempts[n].gate_id = g.gate_id
            /\ (g.cooldown_on = "attempt" \/ (g.cooldown_on = "pass" /\ attempts[n].passed))}

AttemptTime(n) ==
    ListOf(call.entity_state, "gate_attempts")[n].timestamp.t

\* C14: once apply_decisions has recorded cooldown timestamp t for a gate with
\* cooldown_seconds = c > 0, every later evaluate_gates on the resulting state
\* at a time now < t + c in which the gate matches returns for it a decision
\* with passed = false and cooldown_active = true.
C14_CooldownHoldsAcrossCycles ==
    \A i \in DecisionIndices :
        LET g == GateOf(decisions.decisions[i])
        IN  (/\ g.cooldown_seconds > 0
             /\ \E n \in RecordedCooldowns(g) : call.now.t < AttemptTime(n) + g.cooldown_seconds) =>
                /\ ~decisions.decisions[i].passed
                /\ decisions.decisions[i].cooldown_active

\* A later cycle, one second after the recorded attempt and inside the window.
C14_Witness ==
    \E i \in DecisionIndices :
        LET g == GateOf(decisions.decisions[i])
        IN  /\ g.cooldown_seconds = 2
            /\ \E n \in RecordedCooldowns(g) :
                  /\ call.now.t = AttemptTime(n) + 1
                  /\ CooldownsOf(call.entity_state)[g.gate_id]
                        = ListOf(call.entity_state, "gate_attempts")[n].timestamp
            /\ decisions.decisions[i].cooldown_active

IsPrefix(a, b) ==
    Len(a) <= Len(b) /\ SubSeq(b, 1, Len(a)) = a

\* C15: over every sequence of apply_decisions calls in which each call gets
\* the state the previous one returned, gate_attempts and transitions_applied
\* before a call are prefixes of the logs after it.
C15_LogsAppendOnly ==
    [][/\ IsPrefix(ListOf(entity, "gate_attempts"), ListOf(entity', "gate_attempts"))
       /\ IsPrefix(ListOf(entity, "transitions_applied"), ListOf(entity', "transitions_applied"))]_vars

\* A second call in the sequence: both logs held records before it and grew.
C15_Witness ==
    /\ AppliedReturned
    /\ entity = applied.new_state
    /\ Len(ListOf(applied.entity_state, "gate_attempts")) > 0
    /\ Len(ListOf(applied.entity_state, "transitions_applied")) > 0
    /\ Len(ListOf(entity, "gate_attempts")) > Len(ListOf(applied.entity_state, "gate_attempts"))
    /\ Len(ListOf(entity, "transitions_applied"))
          > Len(ListOf(applied.entity_state, "transitions_applied"))

\* The caller's entity state object of the cycle's evaluate_gates call, as it
\* is now: the object apply_decisions was given, once it has been called.
LiveEntity ==
    IF applied.kind = "apply" THEN applied.caller_after ELSE entity

\* A snapshot as a reader finds it now: an entry that is the caller's own
\* object shows what the object holds now.
Observed(snapshot) ==
    [feature_snapshot |-> IF "feature_snapshot" \in snapshot.shared
                          THEN features ELSE snapshot.feature_snapshot,
     entity_snapshot |-> IF "entity_snapshot" \in snapshot.shared
                         THEN LiveEntity ELSE snapshot.entity_snapshot,
     config_version |-> snapshot.config_version,
     gate_version |-> snapshot.gate_version,
     timestamp |-> snapshot.timestamp,
     cooldown_active |-> snapshot.cooldown_active]

\* The snapshot of the inputs of the cycle's evaluate_gates call for a decision.
InputSnapshot(decision) ==
    [feature_snapshot |-> call.features,
     entity_snapshot |-> call.entity_state,
     config_version |-> config.config_version,
     gate_version |-> GateOf(decision).version,
     timestamp |-> isoformat(call.now),
     cooldown_active |-> decision.cooldown_active]

\* C16: every decision, passing or failing, carries a snapshot of the features
\* and entity state given to the call with config_version, gate_version,
\* timestamp and cooldown_active, and whatever the caller or apply_decisions
\* changes later, the snapshots of the decisions and of the attempt and
\* transition records written from them still show those inputs.
C16_SnapshotsOwned ==
    /\ \A i \in DecisionIndices :
          Observed(decisions.decisions[i].transition_attempted.snapshot)
              = InputSnapshot(decisions.decisions[i])
    /\ (AppliedReturned /\ Returned) =>
          LET attempts == ListOf(applied.new_state, "gate_attempts")
              transitions == ListOf(applied.new_state, "transitions_applied")
              passing == PassingDecisions(applied.batch)
          IN  /\ \A i \in 1..Len(applied.batch) :
                    Observed(attempts[Len(attempts) - Len(applied.batch) + i].snapshot)
                        = InputSnapshot(applied.batch[i])
              /\ \A i \in 1..Len(passing) :
                    Observed(transitions[Len(transitions) - Len(passing) + i].snapshot)
                        = InputSnapshot(passing[i])

\* The caller changed its objects after the evaluation and then applied a
\* passing and a failing decision.
C16_Witness ==
    /\ Returned /\ AppliedReturned
    /\ "touched" \in DOMAIN features
    /\ "touched" \in DOMAIN applied.entity_state
    /\ "touched" \notin DOMAIN call.features
    /\ Len(applied.batch) = 2
    /\ applied.batch[1].passed # applied.batch[2].passed

\* The input has gate_attempts or transitions_applied that is not a list, or
\* gate_cooldowns that is not a mapping.
MalformedInput(entity_state) ==
    \/ "gate_attempts" \in DOMAIN entity_state /\ entity_state["gate_attempts"].kind # "list"
    \/ "transitions_applied" \in DOMAIN entity_state
          /\ entity_state["transitions_applied"].kind # "list"
    \/ "gate_cooldowns" \in DOMAIN entity_state /\ entity_state["gate_cooldowns"].kind # "map"

\* C17: on an entity state with a malformed gate_attempts, transitions_applied
\* or gate_cooldowns, apply_decisions raises before it processes a decision:
\* nothing is returned, no record or emission was written and the malformed
\* value is left as it is.
C17_MalformedFailsFast ==
    (applied.kind = "apply" /\ MalformedInput(applied.entity_state)) =>
        /\ applied.raised = "ValueError"
        /\ applied.emissions = <<>>
        /\ \A k \in DOMAIN applied.entity_state : applied.new_state[k] = applied.entity_state[k]
        /\ \A k \in (DOMAIN applied.new_state) \ (DOMAIN applied.entity_state) :
              applied.new_state[k] \in {PyList(<<>>), PyMap(EmptyMap)}

C17_Witness ==
    /\ applied.kind = "apply"
    /\ applied.raised = "ValueError"
    /\ "gate_attempts" \notin DOMAIN applied.entity_state
    /\ MalformedInput(applied.entity_state)
    /\ \E i \in 1..Len(applied.batch) :
          applied.batch[i].passed /\ Len(applied.batch[i].enqueue_tasks_on_pass) > 0

\* C18: when use_schema_envelopes is true and the entity state has no
\* non-empty string entity_id, the apply_decisions call fails with an error
\* instead of returning a state and emissions. Stated for the calls made with
\* the schema backend importable, where the check of entity_id can run.
C18_SchemaRequiresEntityId ==
    (/\ applied.kind = "apply"
     /\ applied.use_schema_envelopes
     /\ schemas_available
     /\ ~MalformedInput(applied.entity_state)
     /\ ~ValidEntityId(MapGet(applied.entity_state, "entity_id"))) =>
        applied.raised # "none"


\* A key the mapping lacks or holds as the empty string.
MissingOrEmpty(m, key) ==
    key \notin DOMAIN m \/ (m[key].kind = "str" /\ m[key].v = "")

\* The number of soft thresholds a gate entry lists.
ThresholdCount(m) ==
    IF "soft_thresholds" \in DOMAIN m /\ m["soft_thresholds"].kind = "list"
    THEN Len(m["soft_thresholds"].v) ELSE 0

DefectiveEntry(m) ==
    \/ \E key \in {"gate_id", "version", "from", "to"} : MissingOrEmpty(m, key)
    \/ /\ "cooldown_seconds" \in DOMAIN m
       /\ m["cooldown_seconds"].kind = "int"
       /\ m["cooldown_seconds"].v < 0
    \/ /\ "min_soft_passed" \in DOMAIN m
       /\ m["min_soft_passed"].kind = "int"
       /\ m["min_soft_passed"].v > ThresholdCount(m)

SameGateId(m, n) ==
    /\ ~MissingOrEmpty(m, "gate_id") /\ m["gate_id"].kind = "str"
    /\ ~MissingOrEmpty(n, "gate_id") /\ n["gate_id"].kind = "str"
    /\ m["gate_id"].v = n["gate_id"].v

DefectiveEntries(entries) ==
    \/ \E i \in 1..Len(entries) : entries[i].kind = "map" /\ DefectiveEntry(entries[i].v)
    \/ \E i, j \in 1..Len(entries) :
          /\ i # j
          /\ entries[i].kind = "map" /\ entries[j].kind = "map"
          /\ SameGateId(entries[i].v, entries[j].v)

\* The defects of a document that the parser is said to refuse.
Defective(payload) ==
    \/ MissingOrEmpty(payload, "config_version")
    \/ "gates" \notin DOMAIN payload
    \/ payload["gates"].kind # "list"
    \/ payload["gates"].v = <<>>
    \/ DefectiveEntries(payload["gates"].v)

WellFormedGates(gates) ==
    /\ \A i, j \in 1..Len(gates) : gates[i].gate_id = gates[j].gate_id => i = j
    /\ \A i \in 1..Len(gates) :
          /\ gates[i].cooldown_seconds >= 0
          /\ gates[i].min_soft_passed # NoQuorum =>
                 gates[i].min_soft_passed <= Len(gates[i].soft_thresholds)

SupportedOps ==
    {"eq", "ne", "gt", "gte", "lt", "lte", "in", "not_in", "exists", "not_exists"}

\* Whether a gate entry of a document names an operator outside SupportedOps.
UnsupportedOpIn(m) ==
    \E key \in {"hard_requirements", "soft_thresholds"} :
        /\ key \in DOMAIN m
        /\ m[key].kind = "list"
        /\ \E i \in 1..Len(m[key].v) :
              /\ m[key].v[i].kind = "map"
              /\ "op" \in DOMAIN m[key].v[i].v
              /\ m[key].v[i].v["op"].kind = "str"
              /\ m[key].v[i].v["op"].v \notin SupportedOps

UnsupportedOpDocument(payload) ==
    /\ "gates" \in DOMAIN payload
    /\ payload["gates"].kind = "list"
    /\ \E i \in 1..Len(payload["gates"].v) :
          payload["gates"].v[i].kind = "map" /\ UnsupportedOpIn(payload["gates"].v[i].v)

OnlySupportedOps(gates) ==
    \A i \in 1..Len(gates) :
        /\ \A k \in 1..Len(gates[i].hard_requirements) :
              gates[i].hard_requirements[k].op \in SupportedOps
        /\ \A k \in 1..Len(gates[i].soft_thresholds) :
              gates[i].soft_thresholds[k].op \in SupportedOps

\* C20: a document in which a hard requirement or a soft threshold uses an
\* operator outside eq, ne, gt, gte, lt, lte, in, not_in, exists, not_exists
\* is rejected with ConfigError at parse time, so that no configuration the
\* call returns contains an unsupported operator.
C20_UnsupportedOperatorRejected ==
    loaded.kind = "parse" =>
        /\ UnsupportedOpDocument(document) => loaded.raised = "ConfigError"
        /\ loaded.raised = "none" => OnlySupportedOps(loaded.config.gates)


\* Whether a gate holds a hard requirement or a soft threshold whose operator
\* is outside SupportedOps.
HasUnknownOp(g) ==
    \/ \E j \in 1..Len(g.hard_requirements) : g.hard_requirements[j].op \notin SupportedOps
    \/ \E j \in 1..Len(g.soft_thresholds) : g.soft_thresholds[j].op \notin SupportedOps

\* C21: whenever evaluate_gates is given a matching gate that holds a predicate
\* with an unsupported operator, the call ends in an error, whatever the entity
\* state and the features are (the predicate's path may be absent); it never
\* returns decisions.
C21_UnknownOpRaises ==
    (decisions # NoCall /\ \E n \in 1..Len(config.gates) :
                               Matching(config.gates[n]) /\ HasUnknownOp(config.gates[n]))
        => decisions.raised # "none"


\* Whether a dotted path of one or two keys resolves in a mapping.
Resolves(m, path) ==
    /\ path[1] \in DOMAIN m
    /\ Len(path) = 2 => (m[path[1]].kind = "map" /\ path[2] \in DOMAIN m[path[1]].v)

ValueAt(m, path) ==
    IF Len(path) = 1 THEN m[path[1]] ELSE m[path[1]].v[path[2]]

\* x > y on the strings that are compared by order.
StrAfter(x, y) ==
    <<x, y>> \in {<<"low", "high">>, <<"ops", "high">>, <<"ops", "low">>}

\* Whether Python's operator holds on (a, b); it does not where Python raises.
OpHolds(op, a, b) ==
    \/ op = "eq" /\ a = b
    \/ op = "ne" /\ a # b
    \/ op = "gt" /\ a.kind = "int" /\ b.kind = "int" /\ a.v > b.v
    \/ op = "gte" /\ a.kind = "int" /\ b.kind = "int" /\ a.v >= b.v
    \/ op = "lt" /\ a.kind = "int" /\ b.kind = "int" /\ a.v < b.v
    \/ op = "lte" /\ a.kind = "int" /\ b.kind = "int" /\ a.v <= b.v
    \/ op \in {"gt", "gte"} /\ a.kind = "str" /\ b.kind = "str" /\ StrAfter(a.v, b.v)
    \/ op \in {"lt", "lte"} /\ a.kind = "str" /\ b.kind = "str" /\ StrAfter(b.v, a.v)
    \/ op \in {"gte", "lte"} /\ a.kind = "str" /\ b.kind = "str" /\ a.v = b.v
    \/ op = "in" /\ b.kind = "list" /\ \E i \in 1..Len(b.v) : b.v[i] = a
    \/ op = "not_in" /\ b.kind = "list" /\ \A i \in 1..Len(b.v) : b.v[i] # a
    \/ op = "in" /\ b.kind = "str" /\ a.kind = "str" /\ a.v = b.v
    \/ op = "not_in" /\ b.kind = "str" /\ a.kind = "str" /\ a.v # b.v

\* The source the predicate selects.
SelectedSource ==
    IF requirement.source = "entity" THEN entity ELSE features

PredicateHeld == held.raised = "none" /\ held.val

\* C22: a predicate with op exists holds iff its path resolves in the selected
\* source (features or entity state), one with not_exists iff it does not; with
\* any other operator the predicate fails when the path is absent, and holds,
\* when it is present, iff the operator holds on (resolved value, declared
\* value).
C22_PredicateSemantics ==
    held.kind = "predicate" =>
        LET present == Resolves(SelectedSource, requirement.field)
        IN  IF requirement.op = "exists"
            THEN held.raised = "none" /\ (held.val <=> present)
            ELSE IF requirement.op = "not_exists"
            THEN held.raised = "none" /\ (held.val <=> ~present)
            ELSE IF ~present
            THEN held.raised = "none" /\ ~held.val
            ELSE PredicateHeld <=>
                     OpHolds(requirement.op, ValueAt(SelectedSource, requirement.field),
                             requirement.value)

\* C22 witness: "ne" on a path whose second key is absent from the entity
\* state has failed, although None differs from the declared value.
C22_Witness ==
    /\ held.kind = "predicate"
    /\ requirement.op = "ne"
    /\ requirement.source = "entity"
    /\ requirement.field = <<"score", "deep">>
    /\ requirement.value = PyInt(1)
    /\ "score" \in DOMAIN entity
    /\ held.raised = "none" /\ ~held.val


\* The sort key of a parsed gate, with an unset track taken as "".
TrackKey(g) == StrRank(IF g.track = None THEN "" ELSE g.track)

\* Whether gate g may stand before gate h in the order (track, from_state, gate_id).
InOrder(g, h) ==
    \/ TrackKey(g) < TrackKey(h)
    \/ /\ TrackKey(g) = TrackKey(h)
       /\ \/ StrRank(g.from_state) < StrRank(h.from_state)
          \/ /\ g.from_state = h.from_state
             /\ StrRank(g.gate_id) <= StrRank(h.gate_id)

GateIds(gates) ==
    [i \in 1..Len(gates) |-> gates[i].gate_id]

\* How evaluate_gates ends on a configuration, and the gate ids of its
\* decisions in order.
DecidedIds(cfg, entity_state) ==
    LET res == evaluate_gates(cfg, entity_state, FeatLow, now)
    IN  <<res.raised, GateIds(res.decisions)>>

\* C23: the gates of a parsed configuration are sorted by (track, from_state,
\* gate_id), an unset track ordered as the empty string; parsing the same gates
\* list in any other order yields the same gate sequence, hence the same
\* configuration, on which evaluate_gates returns its decisions in the same
\* order.
C23_SortedWhateverTheOrder ==
    /\ (loaded.kind = "parse" /\ loaded.raised = "none") =>
           \A i, j \in 1..Len(loaded.config.gates) :
               i < j => InOrder(loaded.config.gates[i], loaded.config.gates[j])
    /\ (second.kind = "parse" /\ loaded.raised = "none" /\ second.raised = "none") =>
           /\ second.config = loaded.config
           /\ \A entity_state \in {EntityNew, EntityTracked} :
                  DecidedIds(second.config, entity_state) = DecidedIds(loaded.config, entity_state)

\* C23 witness: a document of two gates and the same document with the gates
\* swapped were both parsed, and the first one's order is not the sorted one.
C23_Witness ==
    /\ second.kind = "parse"
    /\ loaded.raised = "none"
    /\ second.raised = "none"
    /\ Len(loaded.config.gates) = 2
    /\ second.document # document
    /\ GateIds(loaded.config.gates) # [i \in 1..2 |-> document["gates"].v[i].v["gate_id"].v]


\* What evaluate_gates returns to thread t when it runs alone on what the
\* thread passed to it.
EvaluatedAlone(t) ==
    evaluate_gates(config, threads[t].given, features, now)

AppliedAlone24(t) ==
    apply_decisions(threads[t].given, threads[t].decisions.decisions, threads[t].caused_by, TRUE)

\* Every call that has returned has returned what it returns when run alone.
ResultsAsAlone ==
    \A t \in ThreadIds :
        /\ threads[t].decisions # NoResult =>
               /\ threads[t].decisions.raised = EvaluatedAlone(t).raised
               /\ threads[t].decisions.decisions = EvaluatedAlone(t).decisions
        /\ threads[t].applied # NoResult =>
               /\ threads[t].applied.raised = AppliedAlone24(t).raised
               /\ threads[t].applied.raised = "none" =>
                      /\ threads[t].applied.new_state = AppliedAlone24(t).new_state
                      /\ threads[t].applied.emissions = AppliedAlone24(t).emissions

\* No step of any call changes the configuration, the features or the entity
\* state a thread passed in.
InputsUntouched ==
    /\ config' = config
    /\ features' = features
    /\ \A t \in ThreadIds : threads'[t].entity_state = threads[t].entity_state

\* C24: evaluate_gates and apply_decisions touch no global or cross-call
\* state: in every interleaving of the calls two threads make for their own
\* entities, each call returns what it returns when run alone, and no call
\* changes the configuration, the features or an entity state.
C24_CallsDoNotInterfere ==
    []ResultsAsAlone /\ [][InputsUntouched]_vars

\* C24 witness: thread 1 is in the middle of apply_decisions, with one decision
\* applied, while thread 2 is in the middle of evaluate_gates for another
\* entity, with one decision taken.
C24_Witness ==
    /\ threads # NoCall
    /\ threads[1].pc = "applying"
    /\ frames[1].i = 2
    /\ Len(frames[1].batch) = 2
    /\ threads[2].pc = "evaluating"
    /\ frames[2].i = 2
    /\ Len(frames[2].decisions) = 1
    /\ threads[1].given # threads[2].given


RowsReturned == evaluations.kind = "rows" /\ evaluations.raised = "none"

\* The attempts that carry a datetime: the ones that are labeled.
Labeled ==
    {k \in 1..Len(history.attempts) :
        /\ "attempted_at" \in DOMAIN history.attempts[k]
        /\ history.attempts[k]["attempted_at"].kind = "datetime"}

AttemptPassed(k) ==
    "passed" \in DOMAIN history.attempts[k] /\ history.attempts[k]["passed"] = PyBool(TRUE)

\* Some outcome with success = true has its timestamp in the closed window
\* [attempted_at, attempted_at + outcome_window_seconds] of attempt k.
SuccessInWindow(k) ==
    \E j \in 1..Len(history.outcomes) :
        /\ "timestamp" \in DOMAIN history.outcomes[j]
        /\ history.outcomes[j]["timestamp"].kind = "datetime"
        /\ "success" \in DOMAIN history.outcomes[j]
        /\ history.outcomes[j]["success"] = PyBool(TRUE)
        /\ history.attempts[k]["attempted_at"].t <= history.outcomes[j]["timestamp"].t
        /\ history.outcomes[j]["timestamp"].t <=
               history.attempts[k]["attempted_at"].t + history.outcome_window_seconds

ExpectedLabel(k) ==
    IF AttemptPassed(k)
    THEN (IF SuccessInWindow(k) THEN "true_positive" ELSE "moved_too_early")
    ELSE (IF SuccessInWindow(k) THEN "false_negative" ELSE "true_negative")

\* Whether a row is the row of attempt k.
RowOf(row, k) ==
    /\ row.attempt_id = (IF "attempt_id" \in DOMAIN history.attempts[k]
                         THEN history.attempts[k]["attempt_id"].v ELSE "")
    /\ row.gate_id = history.attempts[k]["gate_id"].v
    /\ row.attempted_at.t = history.attempts[k]["attempted_at"].t

\* C25: every attempt is labeled from (passed, success_observed), where
\* success_observed holds iff some outcome with success = true has a timestamp
\* in the closed window [attempted_at, attempted_at + outcome_window_seconds]:
\* true_positive, moved_too_early, false_negative or true_negative; outcomes
\* outside the window or with success = false never count.
C25_LabelsFromWindow ==
    RowsReturned =>
        /\ Len(evaluations.rows) = Cardinality(Labeled)
        /\ \A k \in Labeled :
              \E n \in 1..Len(evaluations.rows) :
                  /\ RowOf(evaluations.rows[n], k)
                  /\ evaluations.rows[n].label = ExpectedLabel(k)
                  /\ evaluations.rows[n].success_observed = SuccessInWindow(k)
        /\ \A n \in 1..Len(evaluations.rows) :
              \E k \in Labeled :
                  /\ RowOf(evaluations.rows[n], k)
                  /\ evaluations.rows[n].label = ExpectedLabel(k)

\* C25 witness: with a window of one second, a passed attempt at 1 and a
\* blocked attempt at 2, and the only successful outcome at 2 (the end of the
\* first window, the start of the second), the rows are labeled true_positive
\* and false_negative.
C25_Witness ==
    /\ RowsReturned
    /\ history.outcome_window_seconds = 1
    /\ history.attempts = <<Attempt("a1", "g1", PyDatetime(1, TRUE), TRUE),
                            Attempt("a1", "g2", PyDatetime(2, TRUE), FALSE)>>
    /\ history.outcomes = <<Outcome(PyDatetime(1, TRUE), FALSE), Outcome(PyDatetime(2, FALSE), TRUE)>>
    /\ evaluations.rows[1].label = "true_positive"
    /\ evaluations.rows[2].label = "false_negative"

\* Whether row a may stand before row b in the order (gate_id, attempted_at,
\* attempt_id).
RowInOrder(a, b) ==
    \/ LearningRank(a.gate_id) < LearningRank(b.gate_id)
    \/ /\ a.gate_id = b.gate_id
       /\ \/ a.attempted_at.t < b.attempted_at.t
          \/ /\ a.attempted_at.t = b.attempted_at.t
             /\ LearningRank(a.attempt_id) <= LearningRank(b.attempt_id)

\* C26: the returned list is sorted in non-decreasing order of (gate_id,
\* attempted_at, attempt_id), whatever the order of the attempts and outcomes.
C26_RowsSorted ==
    RowsReturned =>
        \A m, n \in 1..Len(evaluations.rows) :
            m < n => RowInOrder(evaluations.rows[m], evaluations.rows[n])

\* C26 witness: two attempts of one gate given latest first came back earliest
\* first.
C26_Witness ==
    /\ RowsReturned
    /\ Len(history.attempts) = 2
    /\ Len(evaluations.rows) = 2
    /\ history.attempts[1]["gate_id"] = history.attempts[2]["gate_id"]
    /\ history.attempts[1]["attempted_at"].t > history.attempts[2]["attempted_at"].t
    /\ evaluations.rows[1].attempted_at.t < evaluations.rows[2].attempted_at.t

\* The reason a label is to get under the supplied taxonomy map.
ExpectedReason(label) ==
    IF label \in {"true_positive", "true_negative"} THEN None
    ELSE IF history.failure_taxonomy_map.kind = "map"
            /\ label \in DOMAIN history.failure_taxonomy_map.v
    THEN history.failure_taxonomy_map.v[label].v
    ELSE "unknown_failure"

\* C27: classify_failure_reason returns no reason for true_positive and
\* true_negative even when the taxonomy map has an entry for them; for every
\* other label it returns the map's entry when one is supplied and
\* "unknown_failure" otherwise; each row's failure_reason is this value for
\* the row's label.
C27_FailureReason ==
    RowsReturned =>
        /\ \A label \in {"true_positive", "true_negative", "moved_too_early",
                         "false_negative", "blocked"} :
              classify_failure_reason(label, history.failure_taxonomy_map, DefaultReason)
                  = ExpectedReason(label)
        /\ \A n \in 1..Len(evaluations.rows) :
              evaluations.rows[n].failure_reason = ExpectedReason(evaluations.rows[n].label)

\* C27 witness: under a taxonomy map with entries for true_positive and
\* moved_too_early, a true_positive row has no reason and a moved_too_early row
\* has the map's entry.
C27_Witness ==
    /\ RowsReturned
    /\ history.failure_taxonomy_map.kind = "map"
    /\ "true_positive" \in DOMAIN history.failure_taxonomy_map.v
    /\ \E m, n \in 1..Len(evaluations.rows) :
          /\ evaluations.rows[m].label = "true_positive"
          /\ evaluations.rows[m].failure_reason = None
          /\ evaluations.rows[n].label = "moved_too_early"
          /\ evaluations.rows[n].failure_reason = "window_miss"


ProposalsReturned == proposals.kind = "proposals" /\ proposals.raised = "none"

\* The labeled attempts the input holds for a gate.
SamplesGiven(gate_id) ==
    {n \in 1..Len(history.rows) : history.rows[n].gate_id = gate_id}

LabelGiven(gate_id, label) ==
    Cardinality({n \in SamplesGiven(gate_id) : history.rows[n].label = label})

ProposedFor(gate_id) ==
    {n \in 1..Len(proposals.proposals) : proposals.proposals[n].gate_id = gate_id}

\* C28: no proposal is returned for a gate id that has fewer than min_samples
\* labeled attempts in the input, whatever their labels; every returned
\* proposal's gate has at least min_samples labeled attempts.
C28_NoProposalBelowMinSamples ==
    ProposalsReturned =>
        /\ \A gate_id \in {"g1", "g2"} :
              Cardinality(SamplesGiven(gate_id)) < proposals.min_samples =>
                  ProposedFor(gate_id) = {}
        /\ \A n \in 1..Len(proposals.proposals) :
              Cardinality(SamplesGiven(proposals.proposals[n].gate_id)) >= proposals.min_samples

\* C28 witness: with min_samples 3, gate g1 has two attempts, both
\* moved_too_early, and no proposal, while gate g2 has three and proposals.
C28_Witness ==
    /\ ProposalsReturned
    /\ proposals.min_samples = 3
    /\ Cardinality(SamplesGiven("g1")) = 2
    /\ LabelGiven("g1", "moved_too_early") = 2
    /\ ProposedFor("g1") = {}
    /\ Cardinality(SamplesGiven("g2")) = 3
    /\ ProposedFor("g2") # {}

\* The (recommendation_type, direction) pairs a gate with enough samples is to
\* get.
ExpectedKinds(gate_id) ==
    (IF 10 * LabelGiven(gate_id, "moved_too_early") >= 3 * Cardinality(SamplesGiven(gate_id))
     THEN {<<"threshold_adjustment", "increase">>, <<"cooldown_adjustment", "increase">>}
     ELSE {})
        \cup
    (IF 10 * LabelGiven(gate_id, "false_negative") >= 3 * Cardinality(SamplesGiven(gate_id))
     THEN {<<"threshold_adjustment", "decrease">>}
     ELSE {})

\* C29: for a gate with total >= min_samples labeled attempts, fp of them
\* moved_too_early and fn false_negative, the output holds a
\* threshold_adjustment/increase and a cooldown_adjustment/increase proposal iff
\* 10*fp >= 3*total, a threshold_adjustment/decrease proposal iff
\* 10*fn >= 3*total, and no other proposal for the gate; a rate of exactly 0.30
\* triggers.
C29_RateThresholds ==
    ProposalsReturned =>
        \A gate_id \in {"g1", "g2"} :
            Cardinality(SamplesGiven(gate_id)) >= proposals.min_samples =>
                /\ {<<proposals.proposals[n].recommendation_type, proposals.proposals[n].direction>> :
                       n \in ProposedFor(gate_id)} = ExpectedKinds(gate_id)
                /\ Cardinality(ProposedFor(gate_id)) = Cardinality(ExpectedKinds(gate_id))

\* C29 witness: gate g1 has ten attempts, exactly three of them moved_too_early
\* and two false_negative, and got the two increase proposals only.
C29_Witness ==
    /\ ProposalsReturned
    /\ Cardinality(SamplesGiven("g1")) = 10
    /\ LabelGiven("g1", "moved_too_early") = 3
    /\ LabelGiven("g1", "false_negative") = 2
    /\ Cardinality(ProposedFor("g1")) = 2
    /\ \A n \in ProposedFor("g1") : proposals.proposals[n].direction = "increase"

\* Every proposal waits for review, and the list handed in is as it was.
ManualAndInputKept ==
    proposals.kind = "proposals" =>
        /\ \A n \in 1..Len(proposals.proposals) : proposals.proposals[n].auto_apply = FALSE
        /\ evaluations.rows = history.rows

\* C30: every proposal returned has auto_apply = false, for every input; the
\* call changes neither its input evaluations nor any gate configuration.
C30_ProposalsNeverAutoApply ==
    []ManualAndInputKept /\ [][config' = config]_vars

\* C30 witness: three proposals were returned for a gate, none of them
\* auto-applying, and the input still holds its rows.
C30_Witness ==
    /\ ProposalsReturned
    /\ Cardinality(ProposedFor("g1")) = 3
    /\ \A n \in ProposedFor("g1") : ~proposals.proposals[n].auto_apply
    /\ Len(evaluations.rows) > 0
    /\ Len(config.gates) > 0

\* The sort key of a proposal, as ranks.
ProposalKey(p) ==
    <<LearningRank(p.gate_id), ProposalRank(p.recommendation_type), ProposalRank(p.direction),
      ProposalRank(p.rationale)>>

\* Tuple order on two proposal keys: strictly before.
ProposalBefore(a, b) ==
    \E k \in 1..4 : ProposalKey(a)[k] < ProposalKey(b)[k]
                      /\ \A j \in 1..(k - 1) : ProposalKey(a)[j] = ProposalKey(b)[j]

ProposalsInOrder(list) ==
    \A m, n \in 1..Len(list) : m < n => ~ProposalBefore(list[n], list[m])

\* C31: the list generate_calibration_proposals returns is sorted by
\* (gate_id, recommendation_type, direction, rationale), and a second run on the
\* same labeled set with the same min_samples returns the same proposals in the
\* same order.
C31_ProposalsSortedAndStable ==
    /\ ProposalsReturned => ProposalsInOrder(proposals.proposals)
    /\ second # NoCall =>
          /\ second.raised = proposals.raised
          /\ second.proposals = proposals.proposals

\* C31 witness: two gates got proposals, three of them for one gate, and the
\* second run, on the rows in the opposite order, returned the same list.
C31_Witness ==
    /\ ProposalsReturned
    /\ second # NoCall
    /\ second.rows # evaluations.rows
    /\ Cardinality(ProposedFor("g1")) = 3
    /\ ProposedFor("g2") # {}
    /\ second.proposals = proposals.proposals

\* C32: evaluate_attempt_outcomes with outcome_window_seconds < 0 and
\* generate_calibration_proposals with min_samples < 1 raise ValueError and
\* return nothing, no attempt labeled and no proposal produced, whatever the
\* other inputs are.
C32_InputErrorsRejectedUpFront ==
    /\ (evaluations # NoCall /\ history.outcome_window_seconds < 0) =>
          /\ evaluations.raised = "ValueError"
          /\ evaluations.rows = <<>>
    /\ (proposals # NoCall /\ proposals.min_samples < 1) =>
          /\ proposals.raised = "ValueError"
          /\ proposals.proposals = <<>>

\* C32 witness: two attempts with an outcome were given with a window of -1 and
\* the labeling raised; the proposals asked for with min_samples 0 were
\* refused as well.
C32_Witness ==
    /\ evaluations # NoCall
    /\ Len(history.attempts) = 2
    /\ Len(history.outcomes) > 0
    /\ history.outcome_window_seconds = -1
    /\ evaluations.raised = "ValueError"
    /\ proposals # NoCall
    /\ proposals.min_samples = 0
    /\ proposals.raised = "ValueError"

\* The features the decisions applied were evaluated on describe a token.
TokenEvaluated ==
    /\ AppliedReturned
    /\ call.kind = "evaluate"
    /\ "token" \in DOMAIN call.features

\* The emission carries the metadata of the token.
CarriesToken(emission, token) ==
    /\ {"token_address", "chain", "symbol"} \subseteq DOMAIN emission
    /\ emission["token_address"] = token["address"]
    /\ emission["chain"] = token["chain"]
    /\ emission["symbol"] = token["symbol"]

\* C33: each emission apply_decisions produces for a passing gate carries the
\* token's metadata taken from the evaluated features: token_address =
\* features.token.address, chain = features.token.chain and symbol =
\* features.token.symbol.
C33_EmissionsCarryToken ==
    TokenEvaluated =>
        \A j \in 1..Len(applied.emissions) :
            CarriesToken(applied.emissions[j], call.features["token"].v)

\* "Unset" is Python's None.
Unset(x) == x = None

HardRequirementIds(g) ==
    {g.hard_requirements[k].requirement_id : k \in 1..Len(g.hard_requirements)}

\* The fields of one decision agree with each other and with its gate.
WellFormedDecision(d) ==
    /\ d.passed => (Unset(d.reason) /\ Unset(d.failed_requirement_id) /\ ~d.cooldown_active)
    /\ ~d.passed => ~Unset(d.reason)
    /\ d.cooldown_active => (~d.passed /\ Unset(d.failed_requirement_id))
    /\ ~Unset(d.failed_requirement_id) =>
          d.failed_requirement_id \in HardRequirementIds(GateOf(d))

\* The embedded attempt says what the decision says, stamped with now.
AttemptAgrees(d, t) ==
    /\ d.transition_attempted.gate_id = d.gate_id
    /\ d.transition_attempted.from_state = d.from_state
    /\ d.transition_attempted.to_state = d.to_state
    /\ d.transition_attempted.passed = d.passed
    /\ d.transition_attempted.reason = d.reason
    /\ d.transition_attempted.failed_requirement_id = d.failed_requirement_id
    /\ d.transition_attempted.timestamp = t

\* C34: every decision evaluate_gates returns is well-formed: passed implies
\* reason and failed_requirement_id unset and cooldown_active false; not passed
\* implies reason set; cooldown_active implies not passed and no
\* failed_requirement_id; a failed_requirement_id is the id of one of the
\* gate's hard requirements; and transition_attempted agrees with the decision
\* on gate_id, from_state, to_state, passed, reason and failed_requirement_id,
\* with timestamp = now.
C34_DecisionsWellFormed ==
    \A i \in DecisionIndices :
        /\ WellFormedDecision(decisions.decisions[i])
        /\ AttemptAgrees(decisions.decisions[i], call.now)

\* C34 witness: one batch holds a decision blocked by cooldown and a decision
\* failed on a hard requirement under an override, and the wall clock has moved
\* on since the call.
C34_Witness ==
    /\ Returned
    /\ wall > 0
    /\ HasOverrides
    /\ \E i, j \in DecisionIndices :
          /\ decisions.decisions[i].cooldown_active
          /\ ~Unset(decisions.decisions[j].failed_requirement_id)
          /\ decisions.decisions[j].reason = "manual_hold"

\* The task ids of the passing decisions of a batch, in batch order.
RECURSIVE TasksOfPassing(_)
TasksOfPassing(passing) ==
    IF passing = <<>> THEN <<>>
    ELSE Head(passing).enqueue_tasks_on_pass \o TasksOfPassing(Tail(passing))

\* The transition-applied records the call added.
AddedTransitions ==
    SubSeq(ListOf(applied.new_state, "transitions_applied"),
           Len(ListOf(applied.entity_state, "transitions_applied")) + 1,
           Len(ListOf(applied.new_state, "transitions_applied")))

\* C35: apply_decisions applies every passing decision of the batch: the
\* returned state is the to_state of the last passing decision in batch order,
\* every passing decision has its transition-applied record and its task
\* emissions, and with no passing decision the state is the input's.
C35_AllPassingApplied ==
    AppliedReturned =>
        /\ PassingDecisions(applied.batch) # <<>> =>
              MapGet(applied.new_state, "state")
                  = PyStr(PassingDecisions(applied.batch)[Len(PassingDecisions(applied.batch))].to_state)
        /\ PassingDecisions(applied.batch) = <<>> =>
              MapGet(applied.new_state, "state") = MapGet(applied.entity_state, "state")
        /\ [k \in 1..Len(AddedTransitions) |-> AddedTransitions[k].gate_id]
              = [k \in 1..Len(PassingDecisions(applied.batch)) |->
                    PassingDecisions(applied.batch)[k].gate_id]
        /\ TaskIds(applied.emissions) = TasksOfPassing(PassingDecisions(applied.batch))

\* C35 witness: both decisions of a batch pass, to different states; the
\* entity ends in the second one's to_state, with two new transition records
\* and the tasks of both.
C35_Witness ==
    /\ AppliedReturned
    /\ Len(applied.batch) = 2
    /\ applied.batch[1].passed /\ applied.batch[2].passed
    /\ applied.batch[1].to_state # applied.batch[2].to_state
    /\ MapGet(applied.new_state, "state") = PyStr(applied.batch[2].to_state)
    /\ Len(AddedTransitions) = 2
    /\ Len(applied.emissions) = 2

\* The batch applied is what evaluate_gates returned for the entity state it
\* is applied to.
AppliedWholeBatch ==
    /\ AppliedReturned
    /\ Returned
    /\ applied.batch = decisions.decisions
    /\ MapGet(applied.entity_state, "state") = MapGet(call.entity_state, "state")

\* The state of the entity right before the k-th record the call added was
\* applied: the input's state, then the to of the record before.
StateBefore(k) ==
    IF k = 1 THEN MapGet(applied.entity_state, "state")
    ELSE PyStr(AddedTransitions[k - 1]["to"])

RealAttempts(g) ==
    {n \in 1..Len(ListOf(call.entity_state, "gate_attempts")) :
        /\ ListOf(call.entity_state, "gate_attempts")[n].gate_id = g.gate_id
        /\ ~ListOf(call.entity_state, "gate_attempts")[n].snapshot.cooldown_active}

\* The time of the most recent of them.
LastRealAttempt(g) ==
    AttemptTime(CHOOSE n \in RealAttempts(g) : \A m \in RealAttempts(g) : m <= n)

\* A decision blocked by cooldown, for a gate that cools down on every attempt.
BlockedOnAttempt(d) ==
    d.cooldown_active /\ d.cooldown_on = "attempt"

C38_CooldownActiveExactly ==
    \A i \in DecisionIndices :
        decisions.decisions[i].cooldown_active <=> InCooldown(GateOf(decisions.decisions[i]))

\* C38 witness: of the two decisions of one evaluation, one is for a gate whose
\* cooldown of 2 s ends at this very now, the other for a gate without cooldown
\* that has a timestamp recorded; neither is blocked and the first was
\* evaluated on its thresholds.
C38_Witness ==
    /\ Returned
    /\ \E i, j \in DecisionIndices :
          /\ GateOf(decisions.decisions[i]).cooldown_seconds = 2
          /\ CooldownEntry(GateOf(decisions.decisions[i])).kind = "isostr"
          /\ call.now.t = CooldownEntry(GateOf(decisions.decisions[i])).t + 2
          /\ ~decisions.decisions[i].cooldown_active
          /\ decisions.probes[i].soft > 0
          /\ GateOf(decisions.decisions[j]).cooldown_seconds = 0
          /\ CooldownEntry(GateOf(decisions.decisions[j])).kind = "isostr"
          /\ ~decisions.decisions[j].cooldown_active

\* The keys of the entity state apply_decisions may write.
AppliedKeys ==
    {"state", "gate_attempts", "transitions_applied", "gate_cooldowns"}

\* The gates with a cooldown entry before or after the call.
CooldownGates ==
    DOMAIN CooldownsOf(applied.entity_state) \cup DOMAIN CooldownsOf(applied.new_state)

\* C39: apply_decisions changes only the keys state, gate_attempts,
\* transitions_applied and gate_cooldowns of the entity state: every other key
\* of the returned state is a key of the input with the input's value and the
\* other way round, and the gate_cooldowns entry of every gate that has no
\* decision in the batch whose cooldown policy fires is the input's.
C39_ApplyFrame ==
    AppliedReturned =>
        /\ DOMAIN applied.new_state \ AppliedKeys = DOMAIN applied.entity_state \ AppliedKeys
        /\ \A k \in DOMAIN applied.entity_state \ AppliedKeys :
              applied.new_state[k] = applied.entity_state[k]
        /\ \A g \in CooldownGates :
              Firing(applied.batch, g) = {} =>
                  /\ g \in DOMAIN CooldownsOf(applied.entity_state)
                  /\ g \in DOMAIN CooldownsOf(applied.new_state)
                  /\ CooldownsOf(applied.new_state)[g] = CooldownsOf(applied.entity_state)[g]

\* C39 witness: the entity has a caller-defined key and a track; the batch
\* moved it to another state and wrote the cooldown timestamp of one gate,
\* while the entry of a gate without decision is as it was.
C39_Witness ==
    /\ AppliedReturned
    /\ {"owner", "track"} \subseteq DOMAIN applied.entity_state
    /\ applied.new_state["owner"] = applied.entity_state["owner"]
    /\ applied.new_state["state"] # applied.entity_state["state"]
    /\ \E g, h \in DOMAIN CooldownsOf(applied.entity_state) :
          /\ Firing(applied.batch, g) # {}
          /\ CooldownsOf(applied.new_state)[g] # CooldownsOf(applied.entity_state)[g]
          /\ Firing(applied.batch, h) = {}
          /\ CooldownsOf(applied.new_state)[h] = CooldownsOf(applied.entity_state)[h]

\* The proposals for a gate of a recommendation type and direction.
ProposedAs(gate_id, recommendation_type, direction) ==
    {n \in ProposedFor(gate_id) :
        /\ proposals.proposals[n].recommendation_type = recommendation_type
        /\ proposals.proposals[n].direction = direction}

\* The gate is told both to raise and to lower its thresholds.
BothDirections(gate_id) ==
    /\ ProposedAs(gate_id, "threshold_adjustment", "increase") # {}
    /\ ProposedAs(gate_id, "threshold_adjustment", "decrease") # {}

OnePerKind(gate_id) ==
    \A recommendation_type \in {"threshold_adjustment", "cooldown_adjustment"},
       direction \in {"increase", "decrease"} :
        Cardinality(ProposedAs(gate_id, recommendation_type, direction)) <= 1

\* C40 as stated: the output never holds both a threshold_adjustment/increase
\* and a threshold_adjustment/decrease proposal for one gate_id, and no gate
\* gets more than one proposal per (recommendation_type, direction).
C40_Original ==
    ProposalsReturned =>
        \A gate_id \in {"g1", "g2"} : ~BothDirections(gate_id) /\ OnePerKind(gate_id)

\* C40: no gate gets more than one proposal per (recommendation_type,
\* direction); the output holds both a threshold_adjustment/increase and a
\* threshold_adjustment/decrease proposal for one gate_id exactly when the gate
\* has at least min_samples labeled attempts and both its moved_too_early rate
\* and its false_negative rate are at least 0.30.
C40_OnePerKindAndDirection ==
    ProposalsReturned =>
        \A gate_id \in {"g1", "g2"} :
            /\ OnePerKind(gate_id)
            /\ BothDirections(gate_id) <=>
                  /\ Cardinality(SamplesGiven(gate_id)) >= proposals.min_samples
                  /\ SamplesGiven(gate_id) # {}
                  /\ 10 * LabelGiven(gate_id, "moved_too_early") >= 3 * Cardinality(SamplesGiven(gate_id))
                  /\ 10 * LabelGiven(gate_id, "false_negative") >= 3 * Cardinality(SamplesGiven(gate_id))

\* C40 witness: of the ten attempts of gate g1 three moved too early and three
\* were false negatives; the gate got the increase and the decrease proposal,
\* one of each.
C40_Witness ==
    /\ ProposalsReturned
    /\ Cardinality(SamplesGiven("g1")) = 10
    /\ LabelGiven("g1", "moved_too_early") = 3
    /\ LabelGiven("g1", "false_negative") = 3
    /\ Cardinality(ProposedAs("g1", "threshold_adjustment", "increase")) = 1
    /\ Cardinality(ProposedAs("g1", "threshold_adjustment", "decrease")) = 1

====
